---------------------------- MODULE Spec2Model ----------------------------
(***************************************************************************)
(* The remote-job call sites of the repository, as one state machine:      *)
(*   - RenderMCPClient.generate_storyboard / _poll_until_complete          *)
(*   - RunwayVideoTool._run                                                *)
(*   - ElevenLabsVoiceTool._run                                            *)
(*   - HeyGenAvatarTool._generate_video / _create_avatar / _check_status   *)
(*   - CloudStoryboardTool._run and POST /api/storyboards, the callers of  *)
(*     generate_storyboard                                                 *)
(* One behaviour is one invocation (one job).  The provider, the client's  *)
(* configuration and the time an HTTP round trip takes are chosen in Init; *)
(* every HTTP response is chosen when the call returns.                    *)
(***************************************************************************)
EXTENDS Integers, Sequences, FiniteSets, TLC

(***************************************************************************)
(* Strings whose casing matters are sequences of characters, so that       *)
(* str.lower() is computed and not assumed.                                *)
(***************************************************************************)
LowerAlpha ==
  <<"a","b","c","d","e","f","g","h","i","j","k","l","m",
    "n","o","p","q","r","s","t","u","v","w","x","y","z">>

UpperAlpha ==
  <<"A","B","C","D","E","F","G","H","I","J","K","L","M",
    "N","O","P","Q","R","S","T","U","V","W","X","Y","Z">>

Letters == { LowerAlpha[i] : i \in 1..Len(LowerAlpha) } \cup { UpperAlpha[i] : i \in 1..Len(UpperAlpha) }

\* the lower-case and the upper-case form of each letter
LowerChar ==
  [c \in Letters |->
     IF \E i \in 1..Len(UpperAlpha) : UpperAlpha[i] = c
       THEN LowerAlpha[CHOOSE i \in 1..Len(UpperAlpha) : UpperAlpha[i] = c]
       ELSE c]

UpperChar ==
  [c \in Letters |->
     IF \E i \in 1..Len(LowerAlpha) : LowerAlpha[i] = c
       THEN UpperAlpha[CHOOSE i \in 1..Len(LowerAlpha) : LowerAlpha[i] = c]
       ELSE c]

\* str.lower()
Lower(s) == [i \in 1..Len(s) |-> LowerChar[s[i]]]

\* str.upper() and str.capitalize(): used only to build the inputs
Upper(s) == [i \in 1..Len(s) |-> UpperChar[s[i]]]

Capitalize(s) == [i \in 1..Len(s) |-> IF i = 1 THEN UpperChar[s[i]] ELSE LowerChar[s[i]]]

W_succeeded == <<"s","u","c","c","e","e","d","e","d">>

W_completed == <<"c","o","m","p","l","e","t","e","d">>

W_ready == <<"r","e","a","d","y">>

W_failed == <<"f","a","i","l","e","d">>

W_error == <<"e","r","r","o","r">>

W_pending == <<"p","e","n","d","i","n","g">>

W_running == <<"r","u","n","n","i","n","g">>

W_processing == <<"p","r","o","c","e","s","s","i","n","g">>

W_queued == <<"q","u","e","u","e","d">>

W_unknown == <<"u","n","k","n","o","w","n">>

\* The words the providers' status fields are drawn from, in three casings.
BaseWords ==
  { W_succeeded, W_completed, W_ready, W_failed, W_error,
    W_pending, W_running, W_processing }

StatusWords == BaseWords \cup { Upper(w) : w \in BaseWords } \cup { Capitalize(w) : w \in BaseWords }

(***************************************************************************)
(* Bounds of the model.                                                    *)
(***************************************************************************)
\* max_poll_time of the Render client ranges over 0..MaxPollTime
MaxPollTime == 3

\* poll_interval of the Render client ranges over 0..MaxInterval
MaxInterval == 2

\* one HTTP round trip of a job takes 0..MaxLatency time units
MaxLatency == 1

\* the Render poller is followed for at most MaxPolls status requests
MaxPolls == 6

\* base URLs of up to MaxUrlLen characters, job ids of up to MaxIdLen
MaxUrlLen == 3

MaxIdLen == 2

(***************************************************************************)
(* Program constants.                                                      *)
(***************************************************************************)
\* runway_video_tool.py: max_attempts = 60
max_attempts == 60

\* runway_video_tool.py: time.sleep(5)
RunwaySleep == 5

\* render_client.py: poll_interval: float = 5.0
DefaultPollInterval == 5

\* render_client.py: max_poll_time: float = 300.0
DefaultMaxPollTime == 300

\* render_client.py: timeout: float = 60.0
timeout == 60

\* render_client.py, validate_frames: len(value) > 12
MaxFrames == 12

(***************************************************************************)
(* HTTP responses.  kind "http" is a response with a status code and a     *)
(* body; "connect" and "timeout" are the transport failing before any      *)
(* response (connection refused / DNS / TLS, and a read timeout).          *)
(* A body is JSON or not; a JSON body is an object that may be empty, and  *)
(* may carry a status string, a job identifier (job_id / id), a            *)
(* status_url, and a non-empty error and message text.  A response may     *)
(* carry a retry hint in its Retry-After header and in its body.           *)
(***************************************************************************)
Body(json, empty, has_status, status, has_id, has_url) ==
  [json |-> json, empty |-> empty, has_status |-> has_status, status |-> status,
   has_id |-> has_id, has_url |-> has_url, has_error |-> FALSE, has_message |-> FALSE]

\* the body b with an "error" and a "message" field
WithError(b, has_error, has_message) ==
  [b EXCEPT !.has_error = has_error, !.has_message = has_message]

\* no retry hint
NoHint == "none"

NotJson == Body(FALSE, FALSE, FALSE, <<>>, FALSE, FALSE)

EmptyObject == Body(TRUE, TRUE, FALSE, <<>>, FALSE, FALSE)

\* a non-empty object without a status field
Fields(has_id, has_url) == Body(TRUE, FALSE, FALSE, <<>>, has_id, has_url)

\* a non-empty object with a status field
WithStatus(status, has_id, has_url) == Body(TRUE, FALSE, TRUE, status, has_id, has_url)

Http(code, body) ==
  [kind |-> "http", code |-> code, body |-> body, retry_header |-> NoHint, retry_body |-> NoHint]

\* the response r with a Retry-After header and a retry hint in its body
Hinted(r, header, in_body) == [r EXCEPT !.retry_header = header, !.retry_body = in_body]

ConnectFailure ==
  [kind |-> "connect", code |-> 0, body |-> NotJson, retry_header |-> NoHint, retry_body |-> NoHint]

ReadTimeout ==
  [kind |-> "timeout", code |-> 0, body |-> NotJson, retry_header |-> NoHint, retry_body |-> NoHint]

NoResponse ==
  [kind |-> "none", code |-> 0, body |-> NotJson, retry_header |-> NoHint, retry_body |-> NoHint]

TransportFailures == { ConnectFailure, ReadTimeout }

IsHttp(r) == r.kind = "http"

\* dict.get("status", default)
GetStatus(body, default) == IF body.has_status THEN body.status ELSE default

ErrorCodes == { 400, 401, 402, 404, 422, 429, 500, 503 }

\* what a submission to the Render MCP endpoint can come back with
\* a failure payload with an error text, a message text, or both
FailureBodies ==
  { WithError(WithStatus(W_failed, FALSE, FALSE), TRUE, FALSE),
    WithError(WithStatus(W_failed, FALSE, FALSE), FALSE, TRUE),
    WithError(WithStatus(W_error, FALSE, FALSE), TRUE, TRUE) }

RenderImmediateBodies ==
  { NotJson, EmptyObject, Fields(FALSE, FALSE) }
    \cup { WithStatus(s, FALSE, FALSE) : s \in { W_failed, W_error, Upper(W_failed), W_queued, W_ready } }
    \cup FailureBodies

RenderAcceptedBodies == { NotJson, EmptyObject } \cup { Fields(i, u) : i \in BOOLEAN, u \in BOOLEAN }

RenderSubmitResponses ==
  TransportFailures
    \cup { Http(c, b) : c \in { 200, 201 }, b \in RenderImmediateBodies }
    \cup { Http(202, b) : b \in RenderAcceptedBodies }
    \cup { Http(c, b) : c \in ErrorCodes, b \in { NotJson, EmptyObject, Fields(TRUE, TRUE) } }

\* what a status request can come back with
PollBodies ==
  { EmptyObject, Fields(TRUE, FALSE) } \cup { WithStatus(s, TRUE, FALSE) : s \in StatusWords }

RenderPollResponses ==
  TransportFailures
    \cup { Http(200, b) : b \in PollBodies \cup FailureBodies \cup { NotJson } }
    \cup { Http(202, WithStatus(s, TRUE, FALSE)) : s \in { W_running, W_ready, W_failed } }
    \cup { Http(c, EmptyObject) : c \in ErrorCodes }

\* rate-limit responses with a Retry-After header, with a retry hint in the
\* body only, and with both
HintedResponses ==
  { Hinted(Http(429, NotJson), "7", NoHint),
    Hinted(Http(429, Fields(FALSE, FALSE)), NoHint, "9"),
    Hinted(Http(429, Fields(FALSE, FALSE)), "7", "9") }

RunwaySubmitResponses ==
  TransportFailures
    \cup HintedResponses
    \cup { Http(c, b) : c \in { 200, 201, 202 }, b \in { NotJson, EmptyObject, Fields(FALSE, FALSE), Fields(TRUE, FALSE) } }
    \cup { Http(c, b) : c \in ErrorCodes, b \in { NotJson, EmptyObject, Fields(TRUE, FALSE) } }

RunwayPollResponses ==
  TransportFailures
    \cup { Http(200, b) : b \in PollBodies }
    \cup { Http(c, EmptyObject) : c \in { 202 } \cup ErrorCodes }

ElevenLabsResponses ==
  TransportFailures
    \cup HintedResponses
    \cup { Http(c, b) : c \in { 200, 201 } \cup ErrorCodes, b \in { NotJson, EmptyObject } }
    \cup { Http(422, Fields(FALSE, FALSE)) }

HeyGenSubmitResponses ==
  TransportFailures
    \cup { Http(c, b) : c \in { 200, 202 }, b \in { NotJson, EmptyObject, Fields(TRUE, FALSE) } }
    \cup { Http(c, b) : c \in ErrorCodes, b \in { NotJson, EmptyObject, Fields(TRUE, FALSE) } }

HeyGenStatusResponses ==
  TransportFailures
    \cup { Http(200, b) : b \in PollBodies }
    \cup { Http(c, EmptyObject) : c \in ErrorCodes }

HeyGenListResponses ==
  TransportFailures
    \cup { Http(200, b) : b \in { NotJson, EmptyObject, Fields(TRUE, FALSE) } }
    \cup { Http(c, EmptyObject) : c \in ErrorCodes }

(***************************************************************************)
(* What an invocation ends with: a returned value or a raised exception.   *)
(*   how  : "none" while running, "return", "raise"                        *)
(*   ok   : the success flag of the returned value                         *)
(*   kind : the exception class, or the error_type / status the returned   *)
(*          value carries ("" when it carries none)                        *)
(*   msg  : the message                                                    *)
(*   extra: what else the value or the message carries: the retry_after    *)
(*          of a rate-limit error, "parsed" / "raw" for the parsed or the  *)
(*          raw response body of an HTTP error ("" when nothing)           *)
(***************************************************************************)
Outcome(how, ok, kind, msg) ==
  [how |-> how, ok |-> ok, kind |-> kind, msg |-> msg, extra |-> ""]

Extra(o, x) == [o EXCEPT !.extra = x]

Running == Outcome("none", FALSE, "", "")

Providers == { "render", "runway", "elevenlabs", "heygen" }

\* the actions of HeyGenAvatarTool._run, and one it does not know
HeyGenActions ==
  { "generate_video", "create_avatar", "get_avatars", "get_voices", "check_status",
    "estimate_cost", "delete_avatar" }

\* how generate_storyboard is reached: called directly, through
\* CloudStoryboardTool._run, or through POST /api/storyboards
Callers == { "direct", "tool", "rest" }

\* the frame counts a storyboard request is tried with
FrameCounts == { 0, 1, MaxFrames, MaxFrames + 1 }

(***************************************************************************)
(* The arguments of the tools' _run.  Texts are sequences of characters,   *)
(* None and "" are both the empty sequence (the code tests them with not). *)
(***************************************************************************)
Whitespace == { " " }

\* s.strip() is empty
Blank(s) == \A i \in 1..Len(s) : s[i] \in Whitespace

\* the defaults of RunwayVideoTool._run, and no text at all
NoArgs ==
  [ duration |-> 5, quality |-> "standard", aspect_ratio |-> "16:9",
    text |-> <<>>, voice_id |-> <<>>, avatar_id |-> <<>>, avatar_name |-> <<>>,
    photo_url |-> <<>>, job_id |-> <<>> ]

RunwayArgs ==
  { NoArgs,
    [ NoArgs EXCEPT !.duration = 10, !.quality = "high", !.aspect_ratio = "9:16" ],
    [ NoArgs EXCEPT !.duration = 7 ],
    [ NoArgs EXCEPT !.duration = 0 ],
    [ NoArgs EXCEPT !.quality = "ultra" ],
    [ NoArgs EXCEPT !.aspect_ratio = "4:3" ],
    [ NoArgs EXCEPT !.duration = 10, !.aspect_ratio = "4:3" ] }

ElevenLabsArgs ==
  { [ NoArgs EXCEPT !.text = t, !.voice_id = v ] :
      t \in { <<>>, << " " >>, << "h" >> }, v \in { <<>>, << " " >>, << "v" >> } }

HeyGenArgs(action) ==
  CASE action = "generate_video" ->
         { [ NoArgs EXCEPT !.text = t, !.avatar_id = a ] :
             t \in { <<>>, << "h" >> }, a \in { <<>>, << "a" >> } }
    [] action = "create_avatar" ->
         { [ NoArgs EXCEPT !.avatar_name = n, !.photo_url = u ] :
             n \in { <<>>, << "n" >> }, u \in { <<>>, << "u" >> } }
    [] action = "check_status" ->
         { [ NoArgs EXCEPT !.job_id = j ] : j \in { <<>>, << "j" >> } }
    [] action = "estimate_cost" ->
         { [ NoArgs EXCEPT !.text = t ] : t \in { <<>>, << "h" >> } }
    [] OTHER -> { NoArgs }

\* the arguments an invocation of provider p is tried with
ArgsFor(p, action) ==
  CASE p = "runway" -> RunwayArgs
    [] p = "elevenlabs" -> ElevenLabsArgs
    [] p = "heygen" -> HeyGenArgs(action)
    [] OTHER -> { NoArgs }

VARIABLES
  provider,      \* which call site this invocation is
  hgAction,      \* HeyGenAvatarTool._run's action argument ("" for the other providers)
  via,           \* the caller of generate_storyboard ("direct" for the other providers)
  inLoop,        \* CloudStoryboardTool._run is called with an event loop running in its thread
  hasToken,      \* the provider's credential (RENDER_MCP_TOKEN, RUNWAYML_API_KEY, ...) is set
  args,          \* the arguments of the tool's _run (NoArgs for Render)
  tick,          \* two readings of loop.time() with no wait in between differ (by less than any wait)
  frames,        \* the number of frames of the storyboard request
  poll_interval, \* RenderMCPClient.poll_interval
  max_poll_time, \* RenderMCPClient.max_poll_time
  latency,       \* the time one HTTP round trip of this job takes
  pc,            \* "entry", "init", "post", "looptop", "get", "sleep", "done", "returned"
                 \* ("infer", "inferred" in UrlSpec)
  now,           \* the clock (loop.time())
  start,         \* _poll_until_complete's start
  attempt,       \* RunwayVideoTool._run's attempt
  urlFrom,       \* where the polled status URL came from: "", "given", "inferred"
  submitCalls,   \* submission requests issued
  statusCalls,   \* status requests issued
  sleeps,        \* suspensions started
  slept,         \* total time spent suspended
  submitResp,    \* the submission's response, once it has returned
  lastResp,      \* the latest status response, once one has returned
  nPending,      \* status responses of the Render poller that were Pending
  onlyPending,   \* every status response so far was Pending
  terminalSeen,  \* status responses that carried a terminal status
  outcome,       \* what the invocation ended with
  executions,    \* CloudStoryboardTool._run: how many times _execute() was run
  result,        \* what the caller of generate_storyboard (tool or endpoint) ended with
  base_url,      \* RenderMCPClient.base_url, as _infer_status_url reads it
  job_id,        \* the job_id of the 202 body
  status_url,    \* the status URL derived from them
  cancelled,     \* the caller has cancelled the invocation (task.cancel())
  jobs           \* the invocations that run side by side (none but in PairSpec)

vars ==
  << provider, hgAction, via, inLoop, hasToken, args, tick, frames, poll_interval,
     max_poll_time, latency, pc, now, start, attempt, urlFrom, submitCalls, statusCalls, sleeps, slept,
     submitResp, lastResp, nPending, onlyPending, terminalSeen, outcome, executions,
     result, base_url, job_id, status_url, cancelled, jobs >>

config ==
  << provider, hgAction, via, inLoop, hasToken, args, tick, frames, poll_interval,
     max_poll_time, latency >>

caller == << executions, result >>

url == << base_url, job_id, status_url >>

\* the round-trip times a job is tried with; a client built with the
\* defaults (300 s of polling, every 5 s) is also tried with round trips
\* that take as long as its HTTP timeout allows
Latencies(p, caller_) ==
  IF p = "render" /\ caller_ # "direct" THEN 0..MaxLatency \cup { timeout }
  ELSE 0..MaxLatency

Init ==
  /\ provider \in Providers
  /\ hgAction \in (IF provider = "heygen" THEN HeyGenActions ELSE { "" })
  /\ via \in (IF provider = "render" THEN Callers ELSE { "direct" })
  /\ inLoop \in (IF via = "tool" THEN BOOLEAN ELSE { FALSE })
  /\ hasToken \in (IF provider = "render" /\ via = "direct" THEN { TRUE } ELSE BOOLEAN)
  /\ args \in ArgsFor(provider, hgAction)
  /\ tick \in (IF provider = "render" /\ via = "direct" THEN BOOLEAN ELSE { FALSE })
  /\ frames \in (IF via = "direct" THEN { 1 } ELSE FrameCounts)
  /\ poll_interval \in (IF provider # "render" THEN { 0 }
                        ELSE IF via = "direct" THEN 0..MaxInterval
                        ELSE { DefaultPollInterval })
  /\ max_poll_time \in (IF provider # "render" THEN { 0 }
                        ELSE IF via = "direct" THEN 0..MaxPollTime
                        ELSE { DefaultMaxPollTime })
  /\ latency \in Latencies(provider, via)
  /\ pc = (IF via = "direct" THEN "init" ELSE "entry")
  /\ now = 0
  /\ start = 0
  /\ attempt = 0
  /\ urlFrom = ""
  /\ submitCalls = 0
  /\ statusCalls = 0
  /\ sleeps = 0
  /\ slept = 0
  /\ submitResp = NoResponse
  /\ lastResp = NoResponse
  /\ nPending = 0
  /\ onlyPending = TRUE
  /\ terminalSeen = 0
  /\ outcome = Running
  /\ executions = 0
  /\ result = Running
  /\ base_url = <<>>
  /\ job_id = <<>>
  /\ status_url = <<>>
  /\ cancelled = FALSE
  /\ jobs = <<>>

(***************************************************************************)
(* RenderMCPClient                                                         *)
(***************************************************************************)
\* _ensure_success: "empty" and "failure" raise RenderMCPError, "ok" returns
EnsureSuccess(body) ==
  IF body.empty THEN "empty"
  ELSE IF body.has_status /\ body.status \in { W_failed, W_error } THEN "failure"
  ELSE "ok"

\* Mutation of RenderSubmitClass: only 201 is taken as an immediate result,
\* and 200 goes the way of 202.
RenderSubmitClass_200Deferred(r) ==
  IF ~IsHttp(r) THEN "transport"
  ELSE IF r.code = 201 THEN "immediate"
  ELSE IF r.code \in { 200, 202 } THEN "deferred"
  ELSE "http_error"

\* generate_storyboard, the branch taken on the submission's response:
\*   "transport"  client.post raised
\*   "immediate"  200 / 201
\*   "deferred"   202
\*   "http_error" anything else (_raise_http_error)
RenderSubmitClass(r) ==
  IF ~IsHttp(r) THEN "transport"
  ELSE IF r.code \in { 200, 201 } THEN "immediate"
  ELSE IF r.code = 202 THEN "deferred"
  ELSE "http_error"

\* Mutation of RenderStatusUrl: the URL is inferred whenever there is a job_id.
RenderStatusUrl_PrefersJobId(body) ==
  IF body.has_id THEN "inferred"
  ELSE IF body.has_url THEN "given"
  ELSE ""

\* generate_storyboard on 202: the status URL to poll, "" when there is none
RenderStatusUrl(body) ==
  IF body.has_url THEN "given"
  ELSE IF body.has_id THEN "inferred"
  ELSE ""

\* the exception client.post / client.get raises on a transport failure
HttpxError(r) ==
  IF r.kind = "connect" THEN Outcome("raise", FALSE, "httpx.ConnectError", "")
  ELSE Outcome("raise", FALSE, "httpx.ReadTimeout", "")

JsonError == Outcome("raise", FALSE, "JSONDecodeError", "")

RenderError(msg) == Outcome("raise", FALSE, "RenderMCPError", msg)

RenderData == Outcome("return", TRUE, "", "data")

\* _ensure_success: data.get("error") or "Render MCP reported failure"
EnsureSuccessMessage(body) ==
  IF body.has_error THEN "body.error" ELSE "Render MCP reported failure"

\* _poll_until_complete:
\* data.get("error") or data.get("message") or "Render MCP reported failure"
PollFailureMessage(body) ==
  IF body.has_error THEN "body.error"
  ELSE IF body.has_message THEN "body.message"
  ELSE "Render MCP reported failure"

\* Mutation of RenderHttpError: the error depends on what happened before (a
\* failure that follows an invocation that has ended is reported differently).
RenderHttpError_CountsFailures(r) ==
  Extra(RenderError("Render MCP request failed with status"),
        IF \E j \in DOMAIN jobs : jobs[j].pc = "done" THEN "again"
        ELSE IF r.body.json THEN "parsed" ELSE "raw")

\* Mutation of RenderHttpError: _raise_http_error returns instead of raising.
RenderHttpError_Returns(r) == Running

\* _raise_http_error: the message carries the parsed body, or the raw text
\* of a body that does not parse
RenderHttpError(r) ==
  Extra(RenderError("Render MCP request failed with status"),
        IF r.body.json THEN "parsed" ELSE "raw")

\* the statement after the async with block, line 125: reached only when
\* _raise_http_error returns
UnexpectedFlow == RenderError("Unexpected flow in Render MCP client")

\* what _ensure_success(data); return data ends with
RenderReturnData(body) ==
  CASE EnsureSuccess(body) = "empty" -> RenderError("Empty response from Render MCP")
    [] EnsureSuccess(body) = "failure" -> RenderError(EnsureSuccessMessage(body))
    [] OTHER -> RenderData

\* Mutation of RenderPollClass: a failure status is not recognised and the
\* loop goes on.
RenderPollClass_FailureIgnored(r) ==
  IF ~IsHttp(r) THEN "transport"
  ELSE IF r.code \notin { 200, 202 } THEN "http_error"
  ELSE IF ~r.body.json THEN "bad_json"
  ELSE IF Lower(GetStatus(r.body, W_unknown)) \in { W_succeeded, W_completed, W_ready } THEN "success"
  ELSE "pending"

\* _poll_until_complete, the branch taken on a status response:
\*   "transport"  client.get raised
\*   "http_error" status code not in (200, 202)
\*   "bad_json"   response.json() raised
\*   "success" / "failure" / "pending" by the lower-cased status
RenderPollClass(r) ==
  IF ~IsHttp(r) THEN "transport"
  ELSE IF r.code \notin { 200, 202 } THEN "http_error"
  ELSE IF ~r.body.json THEN "bad_json"
  ELSE IF Lower(GetStatus(r.body, W_unknown)) \in { W_succeeded, W_completed, W_ready } THEN "success"
  ELSE IF Lower(GetStatus(r.body, W_unknown)) \in { W_failed, W_error } THEN "failure"
  ELSE "pending"

\* Mutation of RenderTimedOut: the deadline is extended by one interval.
RenderTimedOut_Grace == now - start > max_poll_time + poll_interval

\* Mutation of DeadlinePassed: the deadline test is not strict.
DeadlinePassed_NotStrict(elapsed) == elapsed >= max_poll_time

\* loop.time() - start > self.max_poll_time, line 133: the elapsed time is the
\* waits so far, plus the time the clock moved between the readings
DeadlinePassed(elapsed) == elapsed > max_poll_time \/ (tick /\ elapsed = max_poll_time)

\* _poll_until_complete: the deadline test at the top of the loop
RenderTimedOut == DeadlinePassed(now - start)

End(o) ==
  /\ pc' = "done"
  /\ outcome' = o

\* client.post(...) is issued
RenderSubmit ==
  /\ provider = "render"
  /\ pc = "init"
  /\ pc' = "post"
  /\ submitCalls' = submitCalls + 1
  /\ UNCHANGED << config, url, cancelled, jobs, caller, now, start, attempt, urlFrom, statusCalls, sleeps, slept,
                  submitResp, lastResp, nPending, onlyPending, terminalSeen, outcome >>

\* client.post(...) returns r or raises; lines 106-123, and the entry of
\* _poll_until_complete (start = loop.time())
RenderSubmitReturn(r) ==
  /\ provider = "render"
  /\ pc = "post"
  /\ submitResp' = r
  /\ now' = now + latency
  /\ start' = now'
  /\ CASE RenderSubmitClass(r) = "transport" ->
            /\ End(HttpxError(r))
            /\ urlFrom' = urlFrom
       [] RenderSubmitClass(r) = "immediate" ->
            /\ End(IF r.body.json THEN RenderReturnData(r.body) ELSE JsonError)
            /\ urlFrom' = urlFrom
       [] RenderSubmitClass(r) = "deferred" ->
            IF ~r.body.json
              THEN /\ End(JsonError)
                   /\ urlFrom' = urlFrom
            ELSE IF RenderStatusUrl(r.body) = ""
              THEN /\ End(RenderError("Render MCP returned 202 but did not provide status_url or job_id"))
                   /\ urlFrom' = urlFrom
            ELSE /\ pc' = "looptop"
                 /\ urlFrom' = RenderStatusUrl(r.body)
                 /\ outcome' = outcome
       [] OTHER ->
            /\ End(IF RenderHttpError(r).how = "raise" THEN RenderHttpError(r) ELSE UnexpectedFlow)
            /\ urlFrom' = urlFrom
  /\ UNCHANGED << config, url, cancelled, jobs, caller, attempt, submitCalls, statusCalls, sleeps, slept, lastResp,
                  nPending, onlyPending, terminalSeen >>

\* the top of the while loop: the deadline test, then client.get(...) is issued
RenderLoopTop ==
  /\ provider = "render"
  /\ pc = "looptop"
  /\ IF RenderTimedOut
       THEN /\ End(RenderError("Timed out waiting for Render MCP job to complete"))
            /\ statusCalls' = statusCalls
       ELSE /\ statusCalls < MaxPolls
            /\ pc' = "get"
            /\ statusCalls' = statusCalls + 1
            /\ outcome' = outcome
  /\ UNCHANGED << config, url, cancelled, jobs, caller, now, start, attempt, urlFrom, submitCalls, sleeps, slept,
                  submitResp, lastResp, nPending, onlyPending, terminalSeen >>

(***************************************************************************)
(* The providers' status vocabularies, as the history variables read them  *)
(* (independently of the branch the code takes).                           *)
(***************************************************************************)
\* render_client.py: {"succeeded", "completed", "ready"} and {"failed", "error"}
RenderSuccessWords == { W_succeeded, W_completed, W_ready }

RenderFailureWords == { W_failed, W_error }

\* runway_video_tool.py: "SUCCEEDED" and "FAILED"
RunwaySuccessWords == { Upper(W_succeeded) }

RunwayFailureWords == { Upper(W_failed) }

\* a status payload: a JSON body on a status code the poller reads the body of
RenderPayload(r) == IsHttp(r) /\ r.code \in { 200, 202 } /\ r.body.json

RunwayPayload(r) == IsHttp(r) /\ r.code = 200 /\ r.body.json

\* the status response r carries a terminal status of provider p
TerminalFor(p, r) ==
  CASE p = "render" ->
         RenderPayload(r) /\ Lower(GetStatus(r.body, W_unknown)) \in RenderSuccessWords \cup RenderFailureWords
    [] p = "runway" ->
         RunwayPayload(r) /\ GetStatus(r.body, W_unknown) \in RunwaySuccessWords \cup RunwayFailureWords
    [] OTHER -> FALSE

\* the status response r is a status payload that is not terminal
PendingFor(p, r) ==
  CASE p = "render" -> RenderPayload(r) /\ ~TerminalFor(p, r)
    [] p = "runway" -> RunwayPayload(r) /\ ~TerminalFor(p, r)
    [] OTHER -> FALSE

SuccessFor(p, r) ==
  CASE p = "render" -> RenderPayload(r) /\ Lower(GetStatus(r.body, W_unknown)) \in RenderSuccessWords
    [] p = "runway" -> RunwayPayload(r) /\ GetStatus(r.body, W_unknown) \in RunwaySuccessWords
    [] OTHER -> FALSE

\* client.get(...) returns r or raises; lines 138-150
RenderPollReturn(r) ==
  /\ provider = "render"
  /\ pc = "get"
  /\ lastResp' = r
  /\ now' = now + latency
  /\ terminalSeen' = terminalSeen + (IF TerminalFor("render", r) THEN 1 ELSE 0)
  /\ nPending' = nPending + (IF PendingFor("render", r) THEN 1 ELSE 0)
  /\ onlyPending' = (onlyPending /\ PendingFor("render", r))
  /\ CASE RenderPollClass(r) = "transport" ->
            /\ End(HttpxError(r))
            /\ sleeps' = sleeps
       [] RenderPollClass(r) = "http_error" ->
            /\ End(RenderHttpError(r))
            /\ sleeps' = sleeps
       [] RenderPollClass(r) = "bad_json" ->
            /\ End(JsonError)
            /\ sleeps' = sleeps
       [] RenderPollClass(r) = "success" ->
            /\ End(RenderReturnData(r.body))
            /\ sleeps' = sleeps
       [] RenderPollClass(r) = "failure" ->
            /\ End(RenderError(PollFailureMessage(r.body)))
            /\ sleeps' = sleeps
       [] OTHER ->
            /\ pc' = "sleep"
            /\ sleeps' = sleeps + 1
            /\ outcome' = outcome
  /\ UNCHANGED << config, url, cancelled, jobs, caller, start, attempt, urlFrom, submitCalls, statusCalls, slept, submitResp >>

\* Mutation of Interval: the Render poller backs off, waiting twice the
\* configured interval.
Interval_Doubled == IF provider = "render" THEN 2 * poll_interval ELSE RunwaySleep

\* Mutation of Interval: the wait grows with the number of polls made.
Interval_Backoff == IF provider = "render" THEN poll_interval * statusCalls ELSE RunwaySleep * statusCalls

\* Mutation of Interval: the Render poller does not wait between polls.
Interval_NoWait == IF provider = "render" THEN 0 ELSE RunwaySleep

\* the poller's wait: poll_interval for Render, 5 for Runway
Interval == IF provider = "render" THEN poll_interval ELSE RunwaySleep

\* asyncio.sleep(self.poll_interval) / time.sleep(5) is over
Wake ==
  /\ pc = "sleep"
  /\ ~(provider = "render" /\ cancelled)
  /\ pc' = "looptop"
  /\ now' = now + Interval
  /\ slept' = slept + Interval
  /\ UNCHANGED << config, url, cancelled, jobs, caller, start, attempt, urlFrom, submitCalls, statusCalls, sleeps,
                  submitResp, lastResp, nPending, onlyPending, terminalSeen, outcome >>

(***************************************************************************)
(* RunwayVideoTool._run (with an API key)                                  *)
(***************************************************************************)
\* response.headers.get("Retry-After", "60")
RetryAfter(r) == IF r.retry_header # NoHint THEN r.retry_header ELSE "60"

RunwayError(kind, msg) == Outcome("return", FALSE, kind, msg)

\* Mutation of RunwaySubmitOutcome: only 4xx codes are taken as a failed
\* request, a 5xx response goes on to the generation id.
RunwaySubmitOutcome_5xxAccepted(r) ==
  CASE r.kind = "connect" -> RunwayError("", "Failed to connect to Runway ML API")
    [] r.kind = "timeout" -> RunwayError("", "Request timeout")
    [] r.code = 429 -> Extra(RunwayError("", "Rate limit exceeded"), RetryAfter(r))
    [] r.code = 402 -> RunwayError("", "Insufficient credits")
    [] r.code # 200 /\ r.code < 500 -> RunwayError("", "API request failed")
    [] ~r.body.json -> RunwayError("", "Unexpected error")
    [] ~r.body.has_id -> RunwayError("", "No generation ID received from API")
    [] OTHER -> Running

\* the branch taken on the submission's response, lines 108-147 and 234-253
RunwaySubmitOutcome(r) ==
  CASE r.kind = "connect" -> RunwayError("", "Failed to connect to Runway ML API")
    [] r.kind = "timeout" -> RunwayError("", "Request timeout")
    [] r.code = 429 -> Extra(RunwayError("", "Rate limit exceeded"), RetryAfter(r))
    [] r.code = 402 -> RunwayError("", "Insufficient credits")
    [] r.code # 200 -> RunwayError("", "API request failed")
    [] ~r.body.json -> RunwayError("", "Unexpected error")
    [] ~r.body.has_id -> RunwayError("", "No generation ID received from API")
    [] OTHER -> Running

\* Mutation of RunwayPollClass: FAILED is taken as still in progress.
RunwayPollClass_FailedInProgress(r) ==
  IF ~IsHttp(r) THEN "exception"
  ELSE IF r.code # 200 THEN "non200"
  ELSE IF GetStatus(r.body, W_unknown) = Upper(W_succeeded) THEN "succeeded"
  ELSE IF GetStatus(r.body, W_unknown) \in { Upper(W_pending), Upper(W_running), Upper(W_failed) } THEN "in_progress"
  ELSE "unknown"

\* the branch taken on a status response, lines 155-223
RunwayPollClass(r) ==
  IF ~IsHttp(r) THEN "exception"
  ELSE IF r.code # 200 THEN "non200"
  ELSE IF GetStatus(r.body, W_unknown) = Upper(W_succeeded) THEN "succeeded"
  ELSE IF GetStatus(r.body, W_unknown) = Upper(W_failed) THEN "failed"
  ELSE IF GetStatus(r.body, W_unknown) \in { Upper(W_pending), Upper(W_running) } THEN "in_progress"
  ELSE "unknown"

\* Mutation of RunwayLoopCondition: the loop runs while attempt <= max_attempts.
RunwayLoopCondition_Inclusive == attempt <= max_attempts

\* while attempt < max_attempts
RunwayLoopCondition == attempt < max_attempts

\* the except branch: if attempt >= max_attempts (attempt already incremented)
RunwayGivesUp(a) == a >= max_attempts

\* requests.post(generate_url, ...) is issued
\* Mutation of RunwayArgsError: the duration is not validated.
RunwayArgsError_AnyDuration(a) ==
  IF a.quality \notin { "standard", "high" } THEN "Invalid quality. Must be 'standard' or 'high'"
  ELSE IF a.aspect_ratio \notin { "16:9", "9:16", "1:1" }
    THEN "Invalid aspect ratio. Must be '16:9', '9:16', or '1:1'"
  ELSE ""

\* the input validation, lines 51-71: the error it returns, "" when it passes
RunwayArgsError(a) ==
  IF a.duration \notin { 5, 10 } THEN "Invalid duration. Must be 5 or 10 seconds"
  ELSE IF a.quality \notin { "standard", "high" } THEN "Invalid quality. Must be 'standard' or 'high'"
  ELSE IF a.aspect_ratio \notin { "16:9", "9:16", "1:1" }
    THEN "Invalid aspect ratio. Must be '16:9', '9:16', or '1:1'"
  ELSE ""

\* Mutation of RunwayPrecheck: the API key is not looked at.
RunwayPrecheck_NoKeyCheck ==
  IF RunwayArgsError(args) # "" THEN RunwayError("", RunwayArgsError(args)) ELSE Running

\* what _run returns before any request, lines 41-71 (Running: nothing)
RunwayPrecheck ==
  IF ~hasToken
    THEN RunwayError("", "RUNWAYML_API_KEY environment variable is required but not found")
  ELSE IF RunwayArgsError(args) # "" THEN RunwayError("", RunwayArgsError(args))
  ELSE Running

\* the checks reject the invocation, or requests.post(...) is issued
RunwaySubmit ==
  /\ provider = "runway"
  /\ pc = "init"
  /\ IF RunwayPrecheck # Running
       THEN /\ End(RunwayPrecheck)
            /\ submitCalls' = submitCalls
       ELSE /\ pc' = "post"
            /\ submitCalls' = submitCalls + 1
            /\ outcome' = outcome
  /\ UNCHANGED << config, url, cancelled, jobs, caller, now, start, attempt, urlFrom, statusCalls, sleeps, slept,
                  submitResp, lastResp, nPending, onlyPending, terminalSeen >>

\* requests.post returns r or raises
RunwaySubmitReturn(r) ==
  /\ provider = "runway"
  /\ pc = "post"
  /\ submitResp' = r
  /\ now' = now + latency
  /\ start' = now'
  /\ IF RunwaySubmitOutcome(r) = Running
       THEN /\ pc' = "looptop"
            /\ urlFrom' = "inferred"
            /\ outcome' = outcome
       ELSE /\ End(RunwaySubmitOutcome(r))
            /\ urlFrom' = urlFrom
  /\ UNCHANGED << config, url, cancelled, jobs, caller, attempt, submitCalls, statusCalls, sleeps, slept, lastResp,
                  nPending, onlyPending, terminalSeen >>

\* the while test, then requests.get(status_url, ...) is issued; lines 154-156, 225-232
RunwayLoopTop ==
  /\ provider = "runway"
  /\ pc = "looptop"
  /\ IF RunwayLoopCondition
       THEN /\ pc' = "get"
            /\ statusCalls' = statusCalls + 1
            /\ outcome' = outcome
       ELSE /\ End(RunwayError("timeout", "Generation timeout - video is still processing"))
            /\ statusCalls' = statusCalls
  /\ UNCHANGED << config, url, cancelled, jobs, caller, now, start, attempt, urlFrom, submitCalls, sleeps, slept,
                  submitResp, lastResp, nPending, onlyPending, terminalSeen >>

\* requests.get returns r or raises; lines 158-223
RunwayPollReturn(r) ==
  /\ provider = "runway"
  /\ pc = "get"
  /\ lastResp' = r
  /\ now' = now + latency
  /\ terminalSeen' = terminalSeen + (IF TerminalFor("runway", r) THEN 1 ELSE 0)
  /\ onlyPending' = (onlyPending /\ PendingFor("runway", r))
  /\ CASE RunwayPollClass(r) = "succeeded" ->
            /\ End(Outcome("return", TRUE, "completed", "video_url"))
            /\ UNCHANGED << attempt, sleeps >>
       [] RunwayPollClass(r) = "failed" ->
            /\ End(RunwayError("FAILED", "Video generation failed"))
            /\ UNCHANGED << attempt, sleeps >>
       [] RunwayPollClass(r) = "exception" ->
            /\ attempt' = attempt + 1
            /\ IF RunwayGivesUp(attempt')
                 THEN /\ End(RunwayError("", "Failed to check generation status"))
                      /\ sleeps' = sleeps
                 ELSE /\ pc' = "sleep"
                      /\ sleeps' = sleeps + 1
                      /\ outcome' = outcome
       [] OTHER ->
            /\ attempt' = attempt + 1
            /\ pc' = "sleep"
            /\ sleeps' = sleeps + 1
            /\ outcome' = outcome
  /\ UNCHANGED << config, url, cancelled, jobs, caller, start, urlFrom, submitCalls, statusCalls, slept, submitResp, nPending >>

(***************************************************************************)
(* ElevenLabsVoiceTool._run (with an API key)                              *)
(***************************************************************************)
\* the value returned for the response, lines 112-224: kind is its error_type
ElevenLabsOutcome(r) ==
  CASE r.kind = "timeout" -> Outcome("return", FALSE, "timeout", "Request timed out")
    [] r.kind = "connect" -> Outcome("return", FALSE, "connection_error", "Connection error")
    [] r.code = 429 -> Extra(Outcome("return", FALSE, "rate_limit", "Rate limit exceeded"), RetryAfter(r))
    [] r.code = 401 -> Outcome("return", FALSE, "authentication_error", "Invalid API key or unauthorized access")
    [] r.code = 402 -> Outcome("return", FALSE, "quota_exceeded", "Quota exceeded")
    [] r.code = 404 -> Outcome("return", FALSE, "voice_not_found", "Voice ID not found")
    [] r.code = 422 ->
         Extra(Outcome("return", FALSE, "validation_error", "Validation error"),
               IF r.body.json THEN "parsed" ELSE "")
    [] r.code = 200 -> Outcome("return", TRUE, "", "Audio generated successfully")
    [] OTHER -> Outcome("return", FALSE, "api_error", "HTTP error")

\* the input validation, lines 66-79: the error it returns, "" when it passes
ElevenLabsArgsError(a) ==
  IF Blank(a.text) THEN "Text cannot be empty"
  ELSE IF Blank(a.voice_id) THEN "Voice ID cannot be empty"
  ELSE ""

\* what _run returns before any request, lines 56-79 (Running: nothing)
ElevenLabsPrecheck ==
  IF ~hasToken
    THEN Outcome("return", FALSE, "missing_api_key",
                 "ELEVENLABS_API_KEY environment variable is required but not set")
  ELSE IF ElevenLabsArgsError(args) # ""
    THEN Outcome("return", FALSE, "invalid_input", ElevenLabsArgsError(args))
  ELSE Running

\* the checks reject the invocation, or requests.post(url, ...) is issued
ElevenLabsSubmit ==
  /\ provider = "elevenlabs"
  /\ pc = "init"
  /\ IF ElevenLabsPrecheck # Running
       THEN /\ End(ElevenLabsPrecheck)
            /\ submitCalls' = submitCalls
       ELSE /\ pc' = "post"
            /\ submitCalls' = submitCalls + 1
            /\ outcome' = outcome
  /\ UNCHANGED << config, url, cancelled, jobs, caller, now, start, attempt, urlFrom, statusCalls, sleeps, slept,
                  submitResp, lastResp, nPending, onlyPending, terminalSeen >>

\* requests.post returns r or raises
ElevenLabsReturn(r) ==
  /\ provider = "elevenlabs"
  /\ pc = "post"
  /\ submitResp' = r
  /\ now' = now + latency
  /\ End(ElevenLabsOutcome(r))
  /\ UNCHANGED << config, url, cancelled, jobs, caller, start, attempt, urlFrom, submitCalls, statusCalls, sleeps, slept,
                  lastResp, nPending, onlyPending, terminalSeen >>

(***************************************************************************)
(* HeyGenAvatarTool._run (with an API key)                                 *)
(***************************************************************************)
HeyGenError(msg) == Outcome("return", FALSE, "", msg)

\* the job_id of the returned value: result.get('job_id', 'unknown') in
\* _generate_video, result.get('job_id') in _create_avatar
HeyGenJobId(body) ==
  IF body.has_id THEN "job_id"
  ELSE IF hgAction = "generate_video" THEN "unknown"
  ELSE "None"

\* _generate_video / _create_avatar: the value returned for the response.
\* response.json() raising ends in an error string too (through the except
\* clause of the method or of _run, by the version of requests).
HeyGenSubmitOutcome(r) ==
  CASE ~IsHttp(r) -> HeyGenError("Error making request")
    [] ~r.body.json -> HeyGenError("Error making request")
    [] r.code = 200 -> Extra(Outcome("return", TRUE, "success", "started successfully"), HeyGenJobId(r.body))
    [] OTHER -> HeyGenError("Error generating video or creating avatar")

\* _check_status: the message chosen for the status, lines 335-350
HeyGenStatusClass(status) ==
  IF status = W_completed THEN "completed"
  ELSE IF status = W_processing THEN "processing"
  ELSE IF status = W_failed THEN "failed"
  ELSE "other"

\* _check_status: the value returned for the response, lines 323-357
HeyGenStatusOutcome(r) ==
  CASE ~IsHttp(r) -> HeyGenError("Error checking job status")
    [] r.code # 200 -> HeyGenError("Error checking job status")
    [] ~r.body.json -> HeyGenError("Error checking job status")
    [] OTHER ->
         Outcome("return", HeyGenStatusClass(GetStatus(r.body, W_unknown)) = "completed",
                 HeyGenStatusClass(GetStatus(r.body, W_unknown)), "status_info")

\* the argument checks of _generate_video (line 140), _create_avatar (line
\* 202) and _check_status (line 313): the error returned, "" when they pass
HeyGenArgsError(action, a) ==
  CASE action = "generate_video" /\ (a.text = <<>> \/ a.avatar_id = <<>>) ->
         "Error: Both 'text' and 'avatar_id' are required for video generation"
    [] action = "create_avatar" /\ (a.avatar_name = <<>> \/ a.photo_url = <<>>) ->
         "Error: Both 'avatar_name' and 'photo_url' are required for avatar creation"
    [] action = "check_status" /\ a.job_id = <<>> ->
         "Error: 'job_id' is required for status checking"
    [] OTHER -> ""

\* what _run returns before any request: the key check of line 97, then the
\* handler's argument check (Running: nothing)
HeyGenPrecheck ==
  IF ~hasToken THEN HeyGenError("Error: HEYGEN_API_KEY environment variable is required")
  ELSE IF HeyGenArgsError(hgAction, args) # "" THEN HeyGenError(HeyGenArgsError(hgAction, args))
  ELSE Running

\* the checks reject the invocation, or
\* requests.post(.../video/generate or .../avatars/create) is issued
HeyGenSubmit ==
  /\ provider = "heygen"
  /\ hgAction \in { "generate_video", "create_avatar" }
  /\ pc = "init"
  /\ IF HeyGenPrecheck # Running
       THEN /\ End(HeyGenPrecheck)
            /\ submitCalls' = submitCalls
       ELSE /\ pc' = "post"
            /\ submitCalls' = submitCalls + 1
            /\ outcome' = outcome
  /\ UNCHANGED << config, url, cancelled, jobs, caller, now, start, attempt, urlFrom, statusCalls, sleeps, slept,
                  submitResp, lastResp, nPending, onlyPending, terminalSeen >>

\* requests.post returns r or raises
HeyGenSubmitReturn(r) ==
  /\ provider = "heygen"
  /\ pc = "post"
  /\ submitResp' = r
  /\ now' = now + latency
  /\ End(HeyGenSubmitOutcome(r))
  /\ UNCHANGED << config, url, cancelled, jobs, caller, start, attempt, urlFrom, submitCalls, statusCalls, sleeps, slept,
                  lastResp, nPending, onlyPending, terminalSeen >>

\* requests.get(.../jobs/{job_id}) is issued
HeyGenCheckStatus ==
  /\ provider = "heygen"
  /\ hgAction = "check_status"
  /\ pc = "init"
  /\ IF HeyGenPrecheck # Running
       THEN /\ End(HeyGenPrecheck)
            /\ statusCalls' = statusCalls
       ELSE /\ pc' = "get"
            /\ statusCalls' = statusCalls + 1
            /\ outcome' = outcome
  /\ UNCHANGED << config, url, cancelled, jobs, caller, now, start, attempt, urlFrom, submitCalls, sleeps, slept,
                  submitResp, lastResp, nPending, onlyPending, terminalSeen >>

\* requests.get returns r or raises
HeyGenCheckStatusReturn(r) ==
  /\ provider = "heygen"
  /\ hgAction = "check_status"
  /\ pc = "get"
  /\ lastResp' = r
  /\ now' = now + latency
  /\ End(HeyGenStatusOutcome(r))
  /\ UNCHANGED << config, url, cancelled, jobs, caller, start, attempt, urlFrom, submitCalls, statusCalls, sleeps, slept,
                  submitResp, nPending, onlyPending, terminalSeen >>

\* the actions _run dispatches to a handler that calls HeyGen with a GET
HeyGenListActions == { "get_avatars", "get_voices" }

\* the actions _run knows; any other one gets the 'Unknown action' error
HeyGenKnownActions ==
  { "generate_video", "create_avatar", "get_avatars", "get_voices", "check_status",
    "estimate_cost" }

\* Mutation of HeyGenLocalOutcome: the estimate is fetched from the API.
HeyGenLocalOutcome_EstimateRemote(action) ==
  IF action \in HeyGenKnownActions THEN Running
  ELSE HeyGenError("Error: Unknown action")

\* what _run returns with no request at all: the estimate of _estimate_cost
\* (lines 359-395), or the error of the else branch of the dispatch (line
\* 129); Running for the actions that call HeyGen
HeyGenLocalOutcome(action) ==
  IF action = "estimate_cost" THEN Outcome("return", TRUE, "estimate", "cost_breakdown")
  ELSE IF action \in HeyGenKnownActions THEN Running
  ELSE HeyGenError("Error: Unknown action")

\* _get_avatars / _get_voices: the value returned for the response
HeyGenListOutcome(r) ==
  CASE ~IsHttp(r) -> HeyGenError("Error fetching list")
    [] r.code # 200 -> HeyGenError("Error fetching list")
    [] ~r.body.json -> HeyGenError("Error fetching list")
    [] OTHER -> Outcome("return", TRUE, "success", "list")

\* _run for get_avatars, get_voices, estimate_cost and an unknown action:
\* the key check, then the answer computed locally, or requests.get(.../avatars
\* or .../voices) is issued
HeyGenDispatch ==
  /\ provider = "heygen"
  /\ hgAction \notin { "generate_video", "create_avatar", "check_status" }
  /\ pc = "init"
  /\ IF HeyGenPrecheck # Running
       THEN /\ End(HeyGenPrecheck)
            /\ statusCalls' = statusCalls
     ELSE IF HeyGenLocalOutcome(hgAction) # Running
       THEN /\ End(HeyGenLocalOutcome(hgAction))
            /\ statusCalls' = statusCalls
     ELSE /\ pc' = "get"
          /\ statusCalls' = statusCalls + 1
          /\ outcome' = outcome
  /\ UNCHANGED << config, url, cancelled, jobs, caller, now, start, attempt, urlFrom, submitCalls,
                  sleeps, slept, submitResp, lastResp, nPending, onlyPending, terminalSeen >>

\* requests.get of _get_avatars / _get_voices returns r or raises
HeyGenListReturn(r) ==
  /\ provider = "heygen"
  /\ hgAction \notin { "generate_video", "create_avatar", "check_status" }
  /\ pc = "get"
  /\ lastResp' = r
  /\ now' = now + latency
  /\ End(HeyGenListOutcome(r))
  /\ UNCHANGED << config, url, cancelled, jobs, caller, start, attempt, urlFrom, submitCalls,
                  statusCalls, sleeps, slept, submitResp, nPending, onlyPending, terminalSeen >>

(***************************************************************************)
(* The callers of generate_storyboard: CloudStoryboardTool._run and the    *)
(* POST /api/storyboards endpoint.  Both build the client and the request  *)
(* (RenderMCPClient(), RenderStoryboardRequest(...)) before the call.      *)
(***************************************************************************)
\* Mutation of ValidateFrames: no upper limit on the number of frames.
ValidateFrames_NoUpperLimit(n) ==
  IF n = 0 THEN "At least one frame must be provided" ELSE ""

\* RenderStoryboardRequest.validate_frames: the message of the error raised
\* for n frames, "" when the frames pass
ValidateFrames(n) ==
  IF n = 0 THEN "At least one frame must be provided"
  ELSE IF n > MaxFrames THEN "A maximum of 12 frames per storyboard is supported"
  ELSE ""

\* the exception raised while the client and the request are built, Running
\* when both are built
RequestError ==
  IF ~hasToken THEN Outcome("raise", FALSE, "ValueError", "Render MCP token not provided")
  ELSE IF ValidateFrames(frames) # ""
    THEN Outcome("raise", FALSE, "ValidationError", ValidateFrames(frames))
  ELSE Running

\* class RenderMCPError(RuntimeError)
IsRuntimeError(kind) == kind \in { "RuntimeError", "RenderMCPError" }

\* asyncio.run() and loop.run_until_complete() refuse to run while another
\* event loop is running in the thread
LoopError == Outcome("raise", FALSE, "RuntimeError", "event loop is already running")

\* Mutation of ToolCatch: the except RuntimeError clause comes first, so that
\* a RenderMCPError is taken by it.
ToolCatch_RuntimeErrorFirst(o) ==
  IF o.how = "return" THEN "none"
  ELSE IF IsRuntimeError(o.kind) THEN "retry"
  ELSE "unexpected"

\* CloudStoryboardTool._run: the except clause that takes what
\* asyncio.run(_execute()) ended with
ToolCatch(o) ==
  IF o.how = "return" THEN "none"
  ELSE IF o.kind = "RenderMCPError" THEN "render_error"
  ELSE IF IsRuntimeError(o.kind) THEN "retry"
  ELSE "unexpected"

\* the JSON document _run returns: kind is the prefix put before the message
ToolJson(ok, prefix, msg) == Outcome("return", ok, prefix, msg)

\* what _run returns when asyncio.run(_execute()) ended with o and no second
\* run is made
ToolResult(o) ==
  CASE ToolCatch(o) = "none" -> ToolJson(TRUE, "", "data")
    [] ToolCatch(o) = "render_error" -> Extra(ToolJson(FALSE, "", o.msg), o.extra)
    [] OTHER -> Extra(ToolJson(FALSE, "Unexpected error", o.msg), o.extra)

\* Mutation of RestResult: only the client's timeout is turned into a 502.
RestResult_TimeoutOnly(o) ==
  IF o.how = "return" THEN Outcome("return", TRUE, "success", "data")
  ELSE IF o.kind = "RenderMCPError" /\ o.msg = "Timed out waiting for Render MCP job to complete"
    THEN Extra(Outcome("raise", FALSE, "HTTPException 502", o.msg), o.extra)
  ELSE o

\* what the endpoint ends with when generate_storyboard ended with o
RestResult(o) ==
  IF o.how = "return" THEN Outcome("return", TRUE, "success", "data")
  ELSE IF o.kind = "RenderMCPError"
    THEN Extra(Outcome("raise", FALSE, "HTTPException 502", o.msg), o.extra)
  ELSE o

Return(x) ==
  /\ pc' = "returned"
  /\ result' = x

job ==
  << now, start, attempt, urlFrom, submitCalls, statusCalls, sleeps, slept, submitResp,
     lastResp, nPending, onlyPending, terminalSeen >>

\* _run, lines 111-136: asyncio.run(_execute()) ended with o after n runs of
\* _execute.  The except RuntimeError clause runs _execute() once more on a
\* new loop, outside of any try: whatever that run raises leaves _run.
ToolAfterFirst(o, n) ==
  IF ToolCatch(o) = "retry"
    THEN IF inLoop
           THEN /\ Return(LoopError)
                /\ executions' = n
                /\ outcome' = outcome
           ELSE /\ pc' = "init"
                /\ executions' = n + 1
                /\ outcome' = Running
                /\ result' = result
    ELSE /\ Return(ToolResult(o))
         /\ executions' = n
         /\ outcome' = outcome

\* _run up to the call of generate_storyboard, lines 70-111
ToolRun ==
  /\ via = "tool"
  /\ pc = "entry"
  /\ IF inLoop THEN ToolAfterFirst(LoopError, 0)
     ELSE IF RequestError # Running THEN ToolAfterFirst(RequestError, 1)
     ELSE /\ pc' = "init"
          /\ executions' = 1
          /\ UNCHANGED << outcome, result >>
  /\ UNCHANGED << config, url, cancelled, jobs, job >>

\* _run after generate_storyboard has returned or raised, lines 111-136
ToolHandle ==
  /\ via = "tool"
  /\ pc = "done"
  /\ IF executions = 1 THEN ToolAfterFirst(outcome, 1)
     ELSE /\ Return(IF outcome.how = "return" THEN ToolJson(TRUE, "", "data") ELSE outcome)
          /\ UNCHANGED << executions, outcome >>
  /\ UNCHANGED << config, url, cancelled, jobs, job >>

\* generate_storyboards (POST /api/storyboards) up to the call, lines 77-92
RestRun ==
  /\ via = "rest"
  /\ pc = "entry"
  /\ IF RequestError # Running THEN Return(RequestError)
     ELSE /\ pc' = "init"
          /\ result' = result
  /\ UNCHANGED << config, url, cancelled, jobs, job, executions, outcome >>

\* generate_storyboards after the call has returned or raised, lines 94-99
RestHandle ==
  /\ via = "rest"
  /\ pc = "done"
  /\ Return(RestResult(outcome))
  /\ UNCHANGED << config, url, cancelled, jobs, job, executions, outcome >>

(***************************************************************************)
(* The specification                                                       *)
(***************************************************************************)
Next ==
  \/ RenderSubmit
  \/ \E r \in RenderSubmitResponses : RenderSubmitReturn(r)
  \/ RenderLoopTop
  \/ \E r \in RenderPollResponses : RenderPollReturn(r)
  \/ Wake
  \/ RunwaySubmit
  \/ \E r \in RunwaySubmitResponses : RunwaySubmitReturn(r)
  \/ RunwayLoopTop
  \/ \E r \in RunwayPollResponses : RunwayPollReturn(r)
  \/ ElevenLabsSubmit
  \/ \E r \in ElevenLabsResponses : ElevenLabsReturn(r)
  \/ HeyGenSubmit
  \/ \E r \in HeyGenSubmitResponses : HeyGenSubmitReturn(r)
  \/ HeyGenCheckStatus
  \/ \E r \in HeyGenStatusResponses : HeyGenCheckStatusReturn(r)
  \/ HeyGenDispatch
  \/ \E r \in HeyGenListResponses : HeyGenListReturn(r)
  \/ ToolRun
  \/ ToolHandle
  \/ RestRun
  \/ RestHandle

Spec == Init /\ [][Next]_vars

TypeOK ==
  /\ provider \in Providers
  /\ pc \in { "entry", "init", "post", "looptop", "get", "sleep", "done", "returned",
              "infer", "inferred" }
  /\ submitCalls \in 0..1
  /\ statusCalls \in 0..max_attempts
  /\ attempt \in 0..max_attempts
  /\ (pc = "done") => (outcome.how # "none")
  /\ (outcome.how # "none") => pc \in { "done", "returned" }
  /\ (result.how # "none") = (pc = "returned")

(***************************************************************************)
(* RenderMCPClient._infer_status_url, applied to base URLs and job ids     *)
(* drawn from small sets: URLs are sequences of characters, so that the    *)
(* stripping and the concatenation are computed.                           *)
(***************************************************************************)
\* "https://mcp.render.com/mcp", the default of RENDER_MCP_URL
DefaultBaseUrl ==
  <<"h","t","t","p","s",":","/","/","m","c","p",".","r","e","n","d","e","r",".","c","o","m",
    "/","m","c","p">>

UrlChars == { "u", "/" }

IdChars == { "j", "7" }

BaseUrls ==
  { DefaultBaseUrl, DefaultBaseUrl \o <<"/">> }
    \cup UNION { [1..k -> UrlChars] : k \in 1..MaxUrlLen }

JobIds == { <<"a","b","c","1","2","3">> } \cup UNION { [1..k -> IdChars] : k \in 1..MaxIdLen }

\* str.endswith("/")
EndsWithSlash(s) == Len(s) > 0 /\ s[Len(s)] = "/"

\* Mutation of InferStatusUrl: the base URL is used as it is.
InferStatusUrl_NoStrip(base, id) == base \o <<"/","j","o","b","s","/">> \o id

\* _infer_status_url: base_url[:-1] when base_url ends with "/", then
\* f"{base}/jobs/{job_id}"
InferStatusUrl(base, id) ==
  (IF EndsWithSlash(base) THEN SubSeq(base, 1, Len(base) - 1) ELSE base)
    \o <<"/","j","o","b","s","/">> \o id

UrlInit ==
  /\ provider = "render"
  /\ hgAction = ""
  /\ via = "direct"
  /\ inLoop = FALSE
  /\ hasToken = TRUE
  /\ args = NoArgs
  /\ tick = FALSE
  /\ frames = 1
  /\ poll_interval = DefaultPollInterval
  /\ max_poll_time = DefaultMaxPollTime
  /\ latency = 0
  /\ pc = "infer"
  /\ now = 0
  /\ start = 0
  /\ attempt = 0
  /\ urlFrom = ""
  /\ submitCalls = 0
  /\ statusCalls = 0
  /\ sleeps = 0
  /\ slept = 0
  /\ submitResp = NoResponse
  /\ lastResp = NoResponse
  /\ nPending = 0
  /\ onlyPending = TRUE
  /\ terminalSeen = 0
  /\ outcome = Running
  /\ executions = 0
  /\ result = Running
  /\ base_url \in BaseUrls
  /\ job_id \in JobIds
  /\ status_url = <<>>
  /\ cancelled = FALSE
  /\ jobs = <<>>

\* status_url = self._infer_status_url(job_id)
InferUrl ==
  /\ pc = "infer"
  /\ pc' = "inferred"
  /\ urlFrom' = "inferred"
  /\ status_url' = InferStatusUrl(base_url, job_id)
  /\ UNCHANGED << config, caller, cancelled, jobs, base_url, job_id, now, start, attempt, submitCalls,
                  statusCalls, sleeps, slept, submitResp, lastResp, nPending, onlyPending,
                  terminalSeen, outcome >>

UrlNext == InferUrl

UrlSpec == UrlInit /\ [][UrlNext]_vars

(***************************************************************************)
(* Properties                                                              *)
(***************************************************************************)
Polls == provider \in { "render", "runway" }

\* the invocation (of generate_storyboard, or of the provider's tool) is over
Done == outcome.how # "none"

\* the invocation ended in an error: an exception, or a value that reports failure
Failed == Done /\ (outcome.how = "raise" \/ ~outcome.ok)

\* the invocation returned a value that reports success
Succeeded == Done /\ outcome.how = "return" /\ outcome.ok

\* C1: once a status poll has returned a terminal status of the provider's
\* vocabulary, the polling loop has returned or raised, and no step issues
\* another status request; for the Render poller and the Runway loop.
C1_NoPollAfterTerminal ==
  [][ (Polls /\ TerminalFor(provider, lastResp))
        => (Done /\ statusCalls' = statusCalls) ]_vars

\* a terminal status came back on a second or later poll, and the loop is over
C1_Witness ==
  /\ Polls
  /\ TerminalFor(provider, lastResp)
  /\ statusCalls >= 2
  /\ Done

\* C2: in generate_storyboard and in the Runway tool a status request is
\* issued only after the submission has been issued and has returned, and at
\* most one terminal status is observed per job.
C2_SubmitBeforePoll ==
  Polls =>
    /\ statusCalls > 0 => (submitCalls = 1 /\ submitResp # NoResponse)
    /\ pc = "post" => statusCalls = 0
    /\ terminalSeen <= 1

\* the job was polled three times and the third poll brought the terminal status
C2_Witness ==
  /\ Polls
  /\ statusCalls = 3
  /\ terminalSeen = 1
  /\ submitResp # NoResponse

\* a 2xx body that is no failure: well-formed, not empty, and without a
\* failure sentinel in its status field (ElevenLabs answers with audio bytes,
\* and Runway's body is to carry the generation id)
NonFailureBody(p, b) ==
  \/ p = "elevenlabs"
  \/ /\ b.json
     /\ ~b.empty
     /\ ~(b.has_status /\ b.status \in { W_failed, W_error })
     /\ p = "runway" => b.has_id

Ok200(p, r) == IsHttp(r) /\ r.code = 200 /\ NonFailureBody(p, r.body)

\* C3 as stated: at every call site a submission answered 200 with a
\* non-failure body ends the job at once with a success, without any status
\* request.
C3_Original ==
  Ok200(provider, submitResp) => (Succeeded /\ statusCalls = 0)

\* C3, amended: a submission answered 200 with a non-failure body ends the
\* job at once with a success and without any status request at the Render,
\* ElevenLabs and HeyGen call sites; at the Runway call site 200 is the
\* acceptance of a deferred job, which never succeeds without a status
\* request.
C3_ImmediateSuccess ==
  Ok200(provider, submitResp) =>
    IF provider = "runway"
      THEN ~(Succeeded /\ statusCalls = 0)
      ELSE Succeeded /\ statusCalls = 0

\* Render answered 200 with a body that is no failure, and the job is over
C3_Witness ==
  /\ provider = "render"
  /\ Ok200(provider, submitResp)
  /\ Done
  /\ statusCalls = 0

\* the submission came back with an HTTP error status
SubmitHttpError == IsHttp(submitResp) /\ submitResp.code >= 400

\* C4: when the submission comes back with an HTTP error status (401, 402,
\* 429, 5xx, ...) the invocation ends in that error at once and no status
\* request is issued for the job.
C4_SubmitErrorNoPoll ==
  SubmitHttpError => (Failed /\ statusCalls = 0 /\ lastResp = NoResponse)

\* a submission was answered 503 with a body that carries a job id
C4_Witness ==
  /\ SubmitHttpError
  /\ submitResp.code = 503
  /\ submitResp.body.has_id
  /\ Failed

\* the budget of the poller: max_poll_time of elapsed time for Render,
\* max_attempts polls for Runway
BudgetExhausted ==
  IF provider = "render" THEN now - start > max_poll_time ELSE attempt >= max_attempts

\* the outcome that reports a timeout
TimedOut ==
  /\ Done
  /\ IF provider = "render"
       THEN outcome = RenderError("Timed out waiting for Render MCP job to complete")
       ELSE outcome.how = "return" /\ ~outcome.ok /\ outcome.kind = "timeout"

\* C5: when the polling budget is exhausted before a terminal status has been
\* observed, the invocation ends with the timed-out outcome, and no status
\* request is in flight that was issued with the budget exhausted.
C5_BudgetExhaustedTimesOut ==
  Polls =>
    /\ (pc = "get") => ~BudgetExhausted
    /\ (Done /\ statusCalls > 0 /\ terminalSeen = 0 /\ BudgetExhausted
          /\ (provider = "render" => PendingFor("render", lastResp)))
        => TimedOut

\* a status response that is a failed poll and no verdict on the job: the
\* transport failed, or the server answered 5xx or 429
TransientPollFailure(r) == r \in TransportFailures \/ (IsHttp(r) /\ (r.code >= 500 \/ r.code = 429))

\* C6: a status poll that fails at transport level, or is answered 5xx or 429,
\* does not end the invocation while the budget lasts: the loop goes on.
C6_FlakyPollAbsorbed ==
  (Polls /\ TransientPollFailure(lastResp) /\ Done) => BudgetExhausted

\* an answer that is final for the job: 401, 402, 404, or a failure payload
FatalResponse(r) == IsHttp(r) /\ r.code \in { 401, 402, 404 }

FailurePayload(p, r) == TerminalFor(p, r) /\ ~SuccessFor(p, r)

\* C7: once a submission or a status poll has been answered 401, 402 or 404,
\* or with a failure payload, the invocation has ended in an error: no
\* further request follows.
C7_FatalNeverRetried ==
  (FatalResponse(submitResp) \/ FatalResponse(lastResp) \/ FailurePayload(provider, lastResp))
    => Failed

\* C8: when the Render poller has received k Pending responses and then a
\* terminal success, it has issued exactly k+1 status requests, has suspended
\* exactly k times, each time for one poll interval, and returns the success
\* payload.
C8_PendingThenSuccess ==
  (provider = "render" /\ Done /\ SuccessFor("render", lastResp))
    => /\ statusCalls = nPending + 1
       /\ sleeps = nPending
       /\ slept = nPending * poll_interval
       /\ outcome = RenderData

\* the spec's case: two Pending responses, then success, with interval 1
C8_Witness ==
  /\ provider = "render"
  /\ Done
  /\ SuccessFor("render", lastResp)
  /\ nPending = 2
  /\ poll_interval = 1
  /\ statusCalls = 3
  /\ outcome = RenderData

\* the time budget of the poller
MaxWait == IF provider = "render" THEN max_poll_time ELSE max_attempts * RunwaySleep

\* the job was polled, with a positive interval, and every status response
\* was Pending
OnlyPendingSeen == Polls /\ statusCalls > 0 /\ onlyPending /\ Interval > 0

HeyGenPayload(r) == IsHttp(r) /\ r.code = 200 /\ r.body.json

\* the status string of a status payload, "unknown" when the field is missing
StatusText(r) == GetStatus(r.body, W_unknown)

\* C10: at every call site that reads a provider status, any casing of a
\* success word yields success, any casing of a failure word yields failure,
\* and every other value, a missing field included, is Pending.
C10_CaseInsensitiveVocabulary ==
  /\ (provider = "render" /\ RenderPayload(lastResp)) =>
       IF Lower(StatusText(lastResp)) \in RenderSuccessWords THEN Succeeded
       ELSE IF Lower(StatusText(lastResp)) \in RenderFailureWords THEN Failed
       ELSE ~Done
  /\ (provider = "runway" /\ RunwayPayload(lastResp)) =>
       IF Lower(StatusText(lastResp)) \in { Lower(w) : w \in RunwaySuccessWords } THEN Succeeded
       ELSE IF Lower(StatusText(lastResp)) \in { Lower(w) : w \in RunwayFailureWords } THEN Failed
       ELSE ~Done
  /\ (provider = "heygen" /\ HeyGenPayload(lastResp)) =>
       IF Lower(StatusText(lastResp)) = W_completed THEN outcome.kind = "completed"
       ELSE IF Lower(StatusText(lastResp)) = W_failed THEN outcome.kind = "failed"
       ELSE outcome.kind \in { "processing", "other" }

\* the submission's response is the provider's acceptance of a deferred job:
\* Render's 202 with a status URL or a job id, Runway's 200 with a generation
\* id, HeyGen's 200 ("... started successfully", with a job id to check later)
DeferredAccepted ==
  CASE provider = "render" ->
         /\ RenderSubmitClass(submitResp) = "deferred"
         /\ submitResp.body.json
         /\ RenderStatusUrl(submitResp.body) # ""
    [] provider = "runway" -> IsHttp(submitResp) /\ RunwaySubmitOutcome(submitResp) = Running
    [] provider = "heygen" -> IsHttp(submitResp) /\ submitResp.code = 200 /\ submitResp.body.json
    [] OTHER -> FALSE

\* C11: a job accepted as deferred is driven to a terminal outcome before the
\* call returns: it never returns a success unless a status poll has brought
\* a terminal success of the remote job; for storyboard rendering, avatar
\* video generation, avatar creation and text/image-to-video generation.
C11_DeferredDrivenToTerminal ==
  (DeferredAccepted /\ Succeeded) => (statusCalls >= 1 /\ SuccessFor(provider, lastResp))

\* the invocation is one that submits a job (check_status submits none)
\* the error of the tool's own argument checks, "" when they pass
ArgsError ==
  CASE provider = "runway" -> RunwayArgsError(args)
    [] provider = "elevenlabs" -> ElevenLabsArgsError(args)
    [] provider = "heygen" -> HeyGenArgsError(hgAction, args)
    [] OTHER -> ""

\* the invocation is one that submits: its credential is set, its arguments
\* pass the tool's checks, and for HeyGen its action is one that submits
Submits ==
  /\ hasToken
  /\ ArgsError = ""
  /\ provider = "heygen" => hgAction \in { "generate_video", "create_avatar" }

RateLimited(r) == IsHttp(r) /\ r.code = 429

\* C12: an invocation issues at most one submission request, and exactly one
\* when it gets as far as an outcome of the job; a submission answered 429
\* ends the invocation in an error with that one request and no status
\* request; for generate_storyboard and for each tool's _run,
\* CloudStoryboardTool._run included.
C12_OneSubmission ==
  /\ submitCalls <= 1
  /\ (Done /\ Submits) => submitCalls = 1
  /\ RateLimited(submitResp) => (Failed /\ submitCalls = 1 /\ statusCalls = 0)
  /\ (pc = "returned" /\ RateLimited(submitResp)) => (result.how = "raise" \/ ~result.ok)

\* CloudStoryboardTool._run has returned after its submission was answered 429
C12_Witness ==
  /\ via = "tool"
  /\ pc = "returned"
  /\ RateLimited(submitResp)
  /\ submitCalls = 1
  /\ ~result.ok
  /\ result.msg = "Render MCP request failed with status"

\* the invocation builds a storyboard request from its caller's arguments
BuildsRequest == provider = "render" /\ via \in { "tool", "rest" }

\* the caller ended in an error that carries the frame validator's message
RejectedForFrames ==
  /\ pc = "returned"
  /\ result.how = "raise" \/ ~result.ok
  /\ result.msg \in { "At least one frame must be provided",
                      "A maximum of 12 frames per storyboard is supported" }

\* C13: on the REST path and on the tool path a storyboard request with 0
\* frames or with more than 12 is rejected with the validator's error and no
\* HTTP call is made for it, and a request of 1 to 12 frames passes the
\* validator and is submitted (given the token, and a thread without a
\* running event loop).
C13_FrameLimits ==
  BuildsRequest =>
    /\ frames \notin 1..12 => (submitCalls = 0 /\ statusCalls = 0 /\ pc \in { "entry", "returned" })
    /\ (frames \notin 1..12 /\ hasToken /\ ~inLoop /\ pc # "entry") => RejectedForFrames
    /\ frames \in 1..12 => ~RejectedForFrames
    /\ (frames \in 1..12 /\ hasToken /\ ~inLoop /\ pc \notin { "entry", "init" }) => submitCalls = 1

\* the tool was given 13 prompts and has returned the validator's error
C13_Witness ==
  /\ via = "tool"
  /\ frames = 13
  /\ submitCalls = 0
  /\ result = ToolJson(FALSE, "Unexpected error", "A maximum of 12 frames per storyboard is supported")

\* the error kind the table gives for a status code, "" for the codes the
\* table has no row for
TableKind(code) ==
  CASE code = 401 -> "AuthError"
    [] code = 429 -> "RateLimited"
    [] code = 402 -> "QuotaExceeded"
    [] code = 404 -> "NotFound"
    [] code = 422 -> "ValidationError"
    [] OTHER -> ""

\* the error kind a caller can tell from what the call site ended with:
\* ElevenLabs' error_type, Runway's two dedicated messages; the Render client
\* and the HeyGen tool report every error status alike
ReportedKind(p, o) ==
  CASE p = "elevenlabs" /\ o.kind = "authentication_error" -> "AuthError"
    [] p = "elevenlabs" /\ o.kind = "rate_limit" -> "RateLimited"
    [] p = "elevenlabs" /\ o.kind = "quota_exceeded" -> "QuotaExceeded"
    [] p = "elevenlabs" /\ o.kind = "voice_not_found" -> "NotFound"
    [] p = "elevenlabs" /\ o.kind = "validation_error" -> "ValidationError"
    [] p = "runway" /\ o.msg = "Rate limit exceeded" -> "RateLimited"
    [] p = "runway" /\ o.msg = "Insufficient credits" -> "QuotaExceeded"
    [] OTHER -> ""

\* C14: a submission answered 401, 429, 402, 404 or 422 is reported as
\* AuthError, RateLimited, QuotaExceeded, NotFound or ValidationError, for
\* every body and at every call site.
C14_ClassificationTable ==
  (IsHttp(submitResp) /\ TableKind(submitResp.code) # "")
    => (Failed /\ ReportedKind(provider, outcome) = TableKind(submitResp.code))

\* a 4xx status that no specific rule of the table matches
Unmatched4xx(r) == IsHttp(r) /\ r.code \in 400..499 /\ TableKind(r.code) = ""

\* what the call site of provider p ends with when its submission is
\* answered r, an HTTP error
SubmitErrorOf(p, r) ==
  CASE p = "render" -> RenderHttpError(r)
    [] p = "runway" -> RunwaySubmitOutcome(r)
    [] p = "elevenlabs" -> ElevenLabsOutcome(r)
    [] OTHER -> HeyGenSubmitOutcome(r)

\* C15: a submission answered with a 4xx status that no specific rule
\* matches is reported with an error kind other than the one a 5xx answer
\* with the same body is reported with (Fatal against Transient).
C15_ClassDistinguished ==
  (Unmatched4xx(submitResp) /\ Done)
    => /\ Failed
       /\ outcome = SubmitErrorOf(provider, submitResp)
       /\ outcome.kind # SubmitErrorOf(provider, Http(500, submitResp.body)).kind

\* the retry hint a response carries: its Retry-After header, else the hint
\* in its body, else none
HintOf(r) == IF r.retry_header # NoHint THEN r.retry_header ELSE r.retry_body

\* the call sites that report a retry_after
ReportsRetryAfter == provider \in { "elevenlabs", "runway" }

\* C16: when the submission is answered 429, the retry_after that is
\* reported equals the hint the response carries, in its header or in its
\* body, and equals 60 when the response carries none.
C16_RetryAfterHint ==
  (ReportsRetryAfter /\ RateLimited(submitResp) /\ Done)
    => outcome.extra = (IF HintOf(submitResp) # NoHint THEN HintOf(submitResp) ELSE "60")

\* a well-formed 2xx body whose status field equals a failure sentinel
FailureSentinel(r) ==
  /\ IsHttp(r)
  /\ r.code \in 200..299
  /\ r.body.json
  /\ r.body.has_status
  /\ r.body.status \in { W_failed, W_error }

\* the message a failure payload is to be reported with: its error field,
\* else its message field, else a generic phrase
FailureMessage(body) ==
  IF body.has_error THEN "body.error"
  ELSE IF body.has_message THEN "body.message"
  ELSE "Render MCP reported failure"

\* C17: the Render client reports a 2xx body whose status is "failed" or
\* "error" as a failure, for the response to the submission (200, 201) and
\* for a status poll, and the failure's message is the body's error field,
\* else its message field, else the generic phrase.
C17_FailureSentinel ==
  provider = "render" =>
    /\ (RenderSubmitClass(submitResp) = "immediate" /\ FailureSentinel(submitResp))
         => (Failed /\ outcome.msg = FailureMessage(submitResp.body))
    /\ FailureSentinel(lastResp)
         => (Failed /\ outcome.msg = FailureMessage(lastResp.body))

\* a response that is to be reported as a validation error: a 422, or a 2xx
\* whose body is empty or does not parse
InvalidSuccessBody(r) == IsHttp(r) /\ r.code \in 200..299 /\ (~r.body.json \/ r.body.empty)

ValidationCase(p, r) ==
  \/ IsHttp(r) /\ r.code = 422
  \/ p = "render" /\ InvalidSuccessBody(r)

\* what the error is to carry: the parsed body when it is well-formed JSON,
\* the raw body otherwise
DetailOf(r) == IF r.body.json THEN "parsed" ELSE "raw"

\* C18: at the ElevenLabs tool and the Render client a submission answered
\* 422, or (Render, whose 2xx bodies are JSON documents) answered 2xx with an
\* empty or unparseable body, ends in an error that carries the parsed body
\* when it is well-formed JSON and the raw body otherwise.
C18_ValidationDetail ==
  (provider \in { "render", "elevenlabs" } /\ Done /\ ValidationCase(provider, submitResp))
    => /\ Failed
       /\ outcome.kind \in { "validation_error", "RenderMCPError" }
       /\ ~submitResp.body.empty => outcome.extra = DetailOf(submitResp)

JobsSegment == <<"/","j","o","b","s","/">>

\* u is base, or base less one trailing slash, followed by "/jobs/" and id
DerivedFrom(u, base, id) ==
  \E p \in { base, SubSeq(base, 1, Len(base) - 1) } :
    /\ u = p \o JobsSegment \o id
    /\ (p = base) = ~EndsWithSlash(base)

\* "https://mcp.render.com/mcp/jobs/abc123"
ExampleStatusUrl == DefaultBaseUrl \o JobsSegment \o <<"a","b","c","1","2","3">>

\* C19 as stated: the derived status URL is the base URL with a trailing
\* slash stripped, followed by "/jobs/" and the job id, and any two bases
\* that differ only by one trailing slash derive the same URL.
C19_Original ==
  pc = "inferred" =>
    /\ DerivedFrom(status_url, base_url, job_id)
    /\ \A b \in BaseUrls : b = base_url \o <<"/">> => InferStatusUrl(b, job_id) = status_url

\* C19, amended: the derived status URL is the base URL less one trailing
\* slash, followed by "/jobs/" and the job id (https://mcp.render.com/mcp and
\* abc123 give https://mcp.render.com/mcp/jobs/abc123), and a base without a
\* trailing slash and the same base with one trailing slash derive the same
\* URL.
C19_InferredStatusUrl ==
  pc = "inferred" =>
    /\ DerivedFrom(status_url, base_url, job_id)
    /\ (base_url = DefaultBaseUrl /\ job_id = <<"a","b","c","1","2","3">>)
         => status_url = ExampleStatusUrl
    /\ \A b \in BaseUrls :
         (b = base_url \o <<"/">> /\ ~EndsWithSlash(base_url))
           => InferStatusUrl(b, job_id) = status_url

\* the default base URL with a trailing slash and job id abc123 have given
\* the example's URL
C19_Witness ==
  /\ pc = "inferred"
  /\ base_url = DefaultBaseUrl \o <<"/">>
  /\ job_id = <<"a","b","c","1","2","3">>
  /\ status_url = ExampleStatusUrl

\* the submission was answered with the provider's acceptance code and a
\* well-formed body that carries neither a status URL nor a job identifier
AcceptedWithoutHandle ==
  /\ IsHttp(submitResp)
  /\ submitResp.body.json
  /\ ~submitResp.body.has_id
  /\ ~submitResp.body.has_url
  /\ CASE provider = "render" -> submitResp.code = 202
       [] provider = "runway" -> submitResp.code = 200
       [] provider = "heygen" -> submitResp.code = 200
       [] OTHER -> FALSE

\* C20: when the acceptance of a deferred job carries neither a status URL
\* nor a job identifier, the invocation ends in an error, no status request
\* is issued, and no success with a placeholder job id is returned; for
\* Render (202), Runway and HeyGen.
C20_UsableHandle ==
  AcceptedWithoutHandle
    => /\ Failed
       /\ statusCalls = 0
       /\ outcome.extra \notin { "unknown", "None" }

(***************************************************************************)
(* Timeouts, transport failures and swallowed errors                       *)
(***************************************************************************)
\* the kind of the outcome a failure reported by the provider ends in:
\* render_client.py line 146, runway_video_tool.py lines 189-196
ProviderFailureKind(p) ==
  IF p = "render" THEN RenderError(PollFailureMessage(EmptyObject)).kind
                  ELSE RunwayError("FAILED", "Video generation failed").kind

\* the budget ran out with no terminal status observed
RanOutOfBudget == Done /\ statusCalls > 0 /\ terminalSeen = 0 /\ BudgetExhausted

\* C21: the kind of a timed-out outcome differs from the kind of the outcome
\* of a failure the provider reported, and an invocation whose budget ran out
\* before a terminal status ends with the timed-out outcome.
C21_TimeoutDistinctByKind ==
  Polls =>
    /\ TimedOut => outcome.kind # ProviderFailureKind(provider)
    /\ (RanOutOfBudget /\ (provider = "render" => PendingFor("render", lastResp))) => TimedOut

\* the outcome is a value, or an exception of the client's own error class
Classified(o) == o.how = "return" \/ o.kind = RenderError("").kind

\* C22: a submission that failed at transport level, or timed out, ends in an
\* error the callee classified: a returned error value or its own error
\* class, never a foreign exception.
C22_SubmitTransportClassified ==
  (submitResp \in TransportFailures) => (Failed /\ Classified(outcome))

\* C24: no status request is issued and no wait between polls is started
\* with the budget exhausted.
C24_DeadlineBeforeEveryStep ==
  Polls => (pc \in { "get", "sleep" } => ~BudgetExhausted)

\* a response that reports a failure: no response at all, or a 4xx/5xx answer
FailingResponse(r) == r \in TransportFailures \/ (IsHttp(r) /\ r.code >= 400)

\* the invocation ended in an error the caller receives: an exception, or a
\* returned error value with a message
ReportedError == Failed /\ (outcome.how = "raise" \/ outcome.msg # "")

\* C26: a failing response, to the submission or to a status poll, has ended
\* the invocation in an error with a message; only a transient failure of a
\* poll may instead be followed by another poll.
C26_NoErrorSwallowed ==
  /\ FailingResponse(submitResp) => ReportedError
  /\ FailingResponse(lastResp) => (ReportedError \/ (TransientPollFailure(lastResp) /\ ~Done))

(***************************************************************************)
(* generate_storyboard: dispatch on the status code of the submission      *)
(***************************************************************************)
\* the submission was answered with status code c
RenderAnswered(c) == provider = "render" /\ IsHttp(submitResp) /\ submitResp.code = c

\* the job was accepted and handed to the poller: a status request was
\* issued or is about to be, or the poller has found its deadline passed
RenderPolled == statusCalls >= 1 \/ (pc = "looptop" /\ ~Done) \/ TimedOut

\* a 202 whose body parses and carries a status_url or a job_id
UsableAccepted == submitResp.body.json /\ RenderStatusUrl(submitResp.body) # ""

\* the claim as stated: every 202 gives a job that is polled
C30_Original ==
  /\ (RenderAnswered(200) \/ RenderAnswered(201)) => (Done /\ statusCalls = 0)
  /\ RenderAnswered(202) => RenderPolled
  /\ (provider = "render" /\ IsHttp(submitResp) /\ submitResp.code \notin { 200, 201, 202 })
       => (Failed /\ statusCalls = 0)
  /\ outcome # UnexpectedFlow

\* C30: a submission answered 200 or 201 ends generate_storyboard with no
\* poll; one answered 202 with a usable handle is polled, and one answered 202
\* without a handle or with a body that does not parse ends in an error with
\* no poll; every other status code ends in the HTTP error with no poll; the
\* 'Unexpected flow' error is never raised.
C30_SubmitDispatch ==
  /\ (RenderAnswered(200) \/ RenderAnswered(201)) => (Done /\ statusCalls = 0)
  /\ RenderAnswered(202) =>
       IF UsableAccepted THEN RenderPolled ELSE (Failed /\ statusCalls = 0)
  /\ (provider = "render" /\ IsHttp(submitResp) /\ submitResp.code \notin { 200, 201, 202 })
       => /\ Failed
          /\ statusCalls = 0
          /\ outcome.msg = "Render MCP request failed with status"
  /\ outcome # UnexpectedFlow

\* a submission was answered 503, and generate_storyboard raised the HTTP
\* error without a poll
C30_Witness ==
  /\ RenderAnswered(503)
  /\ Failed
  /\ outcome.msg = "Render MCP request failed with status"
  /\ statusCalls = 0

(***************************************************************************)
(* Local validation                                                        *)
(***************************************************************************)
\* the arguments violate a constraint the tool checks before it calls out
LocallyInvalid ==
  CASE provider = "runway" ->
         \/ args.duration \notin { 5, 10 }
         \/ args.quality \notin { "standard", "high" }
         \/ args.aspect_ratio \notin { "16:9", "9:16", "1:1" }
    [] provider = "elevenlabs" -> Blank(args.text) \/ Blank(args.voice_id)
    [] provider = "heygen" /\ hgAction = "generate_video" ->
         args.text = <<>> \/ args.avatar_id = <<>>
    [] provider = "heygen" /\ hgAction = "create_avatar" ->
         args.avatar_name = <<>> \/ args.photo_url = <<>>
    [] OTHER -> FALSE

\* C27: an invocation whose arguments violate a locally checked constraint
\* issues no HTTP request at all, and its first step ends it in an error.
C27_LocalRejectionNoCall ==
  LocallyInvalid =>
    /\ submitCalls = 0
    /\ statusCalls = 0
    /\ pc # "init" => Failed

\* a Runway invocation with duration 7 was rejected without a request
C27_Witness ==
  /\ provider = "runway"
  /\ args.duration = 7
  /\ Failed
  /\ outcome.msg = "Invalid duration. Must be 5 or 10 seconds"
  /\ submitCalls = 0

(***************************************************************************)
(* Cancellation.  The awaiting caller of generate_storyboard can cancel    *)
(* its task; RunwayVideoTool._run is synchronous and takes no cancellation *)
(* argument, so a signal raised by its caller is not observed by the loop. *)
(***************************************************************************)
\* the caller signals cancellation while the poller is suspended
Cancel ==
  /\ Polls
  /\ pc = "sleep"
  /\ ~cancelled
  /\ cancelled' = TRUE
  /\ UNCHANGED << config, url, caller, jobs, pc, now, start, attempt, urlFrom, submitCalls, statusCalls,
                  sleeps, slept, submitResp, lastResp, nPending, onlyPending, terminalSeen,
                  outcome >>

\* await asyncio.sleep(self.poll_interval) raises CancelledError, which no
\* handler of the client catches: render_client.py line 150
RenderCancelled ==
  /\ provider = "render"
  /\ pc = "sleep"
  /\ cancelled
  /\ End(Outcome("raise", FALSE, "CancelledError", ""))
  /\ UNCHANGED << config, url, caller, cancelled, jobs, now, start, attempt, urlFrom, submitCalls,
                  statusCalls, sleeps, slept, submitResp, lastResp, nPending, onlyPending,
                  terminalSeen >>

\* one polling invocation, called directly, that its caller may cancel
CancelInit ==
  /\ Init
  /\ Polls
  /\ ~tick
  /\ via = "direct"
  /\ args = NoArgs
  /\ latency = 0

CancelNext ==
  \/ RenderSubmit
  \/ \E r \in RenderSubmitResponses : RenderSubmitReturn(r)
  \/ RenderLoopTop
  \/ \E r \in RenderPollResponses : RenderPollReturn(r)
  \/ Wake
  \/ RunwaySubmit
  \/ \E r \in RunwaySubmitResponses : RunwaySubmitReturn(r)
  \/ RunwayLoopTop
  \/ \E r \in RunwayPollResponses : RunwayPollReturn(r)
  \/ Cancel
  \/ RenderCancelled

CancelSpec == CancelInit /\ [][CancelNext]_vars

\* C23: once cancellation has been signalled during a suspension, the
\* suspension ends the invocation, and no status request and no further wait
\* follows.
C23_CancelAbortsWait ==
  [][ (Polls /\ cancelled) =>
        /\ statusCalls' = statusCalls
        /\ sleeps' = sleeps
        /\ (pc = "sleep" => outcome'.how # "none") ]_vars

(***************************************************************************)
(* Termination of the polling loops.  The thread (or the event loop) that  *)
(* runs an invocation keeps running it, and every HTTP call returns or     *)
(* raises (httpx timeout, requests timeout=30): weak fairness of the steps.*)
(***************************************************************************)
\* (the Runway budget counts attempts, whatever the latency of a call)
LiveInit ==
  /\ Init
  /\ Polls
  /\ ~tick
  /\ via = "direct"
  /\ args = NoArgs
  /\ provider = "runway" => latency = 0

LiveNext ==
  \/ RenderSubmit
  \/ \E r \in RenderSubmitResponses : RenderSubmitReturn(r)
  \/ RenderLoopTop
  \/ \E r \in RenderPollResponses : RenderPollReturn(r)
  \/ Wake
  \/ RunwaySubmit
  \/ \E r \in RunwaySubmitResponses : RunwaySubmitReturn(r)
  \/ RunwayLoopTop
  \/ \E r \in RunwayPollResponses : RunwayPollReturn(r)

LiveSpec == LiveInit /\ [][LiveNext]_vars /\ WF_vars(LiveNext)

\* the configured wait between polls is positive
PositiveInterval == IF provider = "render" THEN poll_interval > 0 ELSE RunwaySleep > 0

\* C29: with a positive poll interval, whatever the status responses are, an
\* invocation that has entered its polling loop eventually returns or raises.
C29_PollingTerminates ==
  (Polls /\ pc = "looptop" /\ PositiveInterval) ~> Done

\* the Render poller, with interval 1, saw only Pending responses to three
\* polls or more and then timed out
C29_Witness ==
  /\ provider = "render"
  /\ poll_interval = 1
  /\ statusCalls >= 3
  /\ onlyPending
  /\ TimedOut

(***************************************************************************)
(* Two invocations side by side: two generate_storyboard coroutines on one *)
(* event loop, or tool threads.  Each call constructs its own              *)
(* RenderMCPClient and httpx.AsyncClient and keeps start, status_url and   *)
(* data in local variables; the tools keep nothing on self.  A job is a    *)
(* record; resps are the responses it has received, calls the HTTP calls   *)
(* it has issued, t the time it has spent in its own waits.                *)
(***************************************************************************)
Jobs == { 1, 2 }

PairProviders == { "render", "elevenlabs" }

\* an HTTP error that can answer a submission as well as a status poll
PairHttpError == Http(503, NotJson)

PairSubmitResponses ==
  { ConnectFailure, Http(200, Fields(TRUE, FALSE)), Http(202, Fields(FALSE, TRUE)),
    Http(404, EmptyObject), PairHttpError }

PairPollResponses ==
  { Http(200, WithStatus(W_processing, FALSE, FALSE)),
    Http(200, WithStatus(W_succeeded, FALSE, FALSE)),
    Http(200, WithStatus(W_failed, FALSE, FALSE)),
    Http(404, EmptyObject), PairHttpError }

NewJob(p) ==
  [ provider |-> p, pc |-> "init", calls |-> <<>>, resps |-> <<>>, t |-> 0, outcome |-> Running ]

\* the job issues an HTTP call and awaits its response
PairIssue(s, call) ==
  [ s EXCEPT !.calls = Append(@, call), !.pc = IF call = "POST" THEN "post" ELSE "get" ]

PairEnd(s, o) == [ s EXCEPT !.pc = "done", !.outcome = o ]

\* generate_storyboard / ElevenLabsVoiceTool._run after the POST returned r
AfterSubmit(s, r) ==
  LET got == [ s EXCEPT !.resps = Append(@, r) ] IN
  IF s.provider = "elevenlabs" THEN PairEnd(got, ElevenLabsOutcome(r))
  ELSE CASE RenderSubmitClass(r) = "transport" -> PairEnd(got, HttpxError(r))
         [] RenderSubmitClass(r) = "immediate" ->
              PairEnd(got, IF r.body.json THEN RenderReturnData(r.body) ELSE JsonError)
         [] RenderSubmitClass(r) = "deferred" ->
              IF ~r.body.json THEN PairEnd(got, JsonError)
              ELSE IF RenderStatusUrl(r.body) = ""
                THEN PairEnd(got, RenderError("Render MCP returned 202 but did not provide status_url or job_id"))
              ELSE [ got EXCEPT !.pc = "looptop", !.t = 0 ]
         [] OTHER -> PairEnd(got, RenderHttpError(r))

\* _poll_until_complete after the GET returned r
AfterPoll(s, r) ==
  LET got == [ s EXCEPT !.resps = Append(@, r) ] IN
  CASE RenderPollClass(r) = "transport" -> PairEnd(got, HttpxError(r))
    [] RenderPollClass(r) = "http_error" -> PairEnd(got, RenderHttpError(r))
    [] RenderPollClass(r) = "bad_json" -> PairEnd(got, JsonError)
    [] RenderPollClass(r) = "success" -> PairEnd(got, RenderReturnData(r.body))
    [] RenderPollClass(r) = "failure" -> PairEnd(got, RenderError(PollFailureMessage(r.body)))
    [] OTHER -> [ got EXCEPT !.pc = "sleep" ]

\* asyncio.sleep(self.poll_interval) is over
AfterWake(s) == [ s EXCEPT !.pc = "looptop", !.t = @ + poll_interval ]

\* the top of the while loop, with elapsed = loop.time() - start
AtLoopTop(s, elapsed) ==
  IF DeadlinePassed(elapsed)
    THEN PairEnd(s, RenderError("Timed out waiting for Render MCP job to complete"))
    ELSE PairIssue(s, "GET")

\* Mutation of PollerElapsed: start is kept in one place for all jobs, the
\* first job's.
PollerElapsed_SharedStart(js, i) == js[1].t

\* loop.time() - start of job i: start is a local variable of its call
PollerElapsed(js, i) == js[i].t

PairInit ==
  /\ provider = "render"
  /\ hgAction = ""
  /\ via = "direct"
  /\ inLoop = FALSE
  /\ hasToken = TRUE
  /\ args = NoArgs
  /\ tick = FALSE
  /\ frames = 1
  /\ poll_interval = 1
  /\ max_poll_time = 1
  /\ latency = 0
  /\ pc = "pair"
  /\ now = 0
  /\ start = 0
  /\ attempt = 0
  /\ urlFrom = ""
  /\ submitCalls = 0
  /\ statusCalls = 0
  /\ sleeps = 0
  /\ slept = 0
  /\ submitResp = NoResponse
  /\ lastResp = NoResponse
  /\ nPending = 0
  /\ onlyPending = TRUE
  /\ terminalSeen = 0
  /\ outcome = Running
  /\ executions = 0
  /\ result = Running
  /\ base_url = <<>>
  /\ job_id = <<>>
  /\ status_url = <<>>
  /\ cancelled = FALSE
  /\ jobs \in { [ i \in Jobs |-> NewJob(f[i]) ] : f \in [ Jobs -> PairProviders ] }

\* everything but jobs
single ==
  << config, url, caller, cancelled, pc, now, start, attempt, urlFrom, submitCalls, statusCalls,
     sleeps, slept, submitResp, lastResp, nPending, onlyPending, terminalSeen, outcome >>

PairSubmit(i) ==
  /\ jobs[i].pc = "init"
  /\ jobs' = [ jobs EXCEPT ![i] = PairIssue(@, "POST") ]
  /\ UNCHANGED single

PairSubmitReturn(i, r) ==
  /\ jobs[i].pc = "post"
  /\ jobs' = [ jobs EXCEPT ![i] = AfterSubmit(@, r) ]
  /\ UNCHANGED single

PairLoopTop(i) ==
  /\ jobs[i].pc = "looptop"
  /\ jobs' = [ jobs EXCEPT ![i] = AtLoopTop(@, PollerElapsed(jobs, i)) ]
  /\ UNCHANGED single

PairPollReturn(i, r) ==
  /\ jobs[i].pc = "get"
  /\ jobs' = [ jobs EXCEPT ![i] = AfterPoll(@, r) ]
  /\ UNCHANGED single

PairWake(i) ==
  /\ jobs[i].pc = "sleep"
  /\ jobs' = [ jobs EXCEPT ![i] = AfterWake(@) ]
  /\ UNCHANGED single

PairNext ==
  \E i \in Jobs :
    \/ PairSubmit(i)
    \/ \E r \in PairSubmitResponses : PairSubmitReturn(i, r)
    \/ PairLoopTop(i)
    \/ \E r \in PairPollResponses : PairPollReturn(i, r)
    \/ PairWake(i)

PairSpec == PairInit /\ [][PairNext]_vars

\* the job runs on by itself until it awaits a response or ends
RunToAwait(s) ==
  IF s.pc = "looptop" THEN AtLoopTop(s, s.t)
  ELSE IF s.pc = "sleep" THEN AtLoopTop(AfterWake(s), AfterWake(s).t)
  ELSE s

\* a job of provider p that runs alone and has received the responses resps
RECURSIVE Solo(_, _)
Solo(p, resps) ==
  IF resps = <<>> THEN PairIssue(NewJob(p), "POST")
  ELSE LET s == Solo(p, SubSeq(resps, 1, Len(resps) - 1))
           r == resps[Len(resps)]
       IN  IF s.pc = "post" THEN RunToAwait(AfterSubmit(s, r))
           ELSE IF s.pc = "get" THEN RunToAwait(AfterPoll(s, r))
           ELSE s

EndedOnHttpError(i) ==
  /\ jobs[i].pc = "done"
  /\ jobs[i].resps # <<>>
  /\ IsHttp(jobs[i].resps[Len(jobs[i].resps)])
  /\ jobs[i].resps[Len(jobs[i].resps)].code >= 400

ConfiguredWait == IF provider = "render" THEN poll_interval ELSE RunwaySleep

\* C31: every suspension of a polling loop lasts exactly the configured
\* wait, whatever the number of polls made and whatever response preceded it.
C31_FixedInterval ==
  [][ (Polls /\ pc = "sleep" /\ pc' = "looptop") =>
        /\ now' - now = ConfiguredWait
        /\ slept' - slept = ConfiguredWait ]_vars

\* the Runway loop has waited 5 twice, the second time after a transport
\* failure of the status request
C31_Witness ==
  /\ provider = "runway"
  /\ pc = "looptop"
  /\ lastResp \in TransportFailures
  /\ sleeps = 2
  /\ slept = 2 * RunwaySleep

\* C32: a Runway invocation issues at most max_attempts status requests; a
\* status response that does not end the invocation adds exactly one to
\* attempt, attempt never decreases, and no status request is in flight for
\* an attempt beyond the last.
C32_RunwayAttemptsBounded ==
  [][ provider = "runway" =>
        /\ statusCalls' <= max_attempts
        /\ attempt' >= attempt
        /\ (pc = "get" /\ pc' # "done") => attempt' = attempt + 1
        /\ pc' = "get" => attempt' < max_attempts ]_vars

\* the Runway loop ended in its timeout after exactly max_attempts requests
C32_Witness ==
  /\ provider = "runway"
  /\ TimedOut
  /\ statusCalls = max_attempts
  /\ attempt = max_attempts

(***************************************************************************)
(* What the callers of generate_storyboard end with                        *)
(***************************************************************************)
\* C33: CloudStoryboardTool._run always returns its JSON document, with
\* success true, or false and an error message; it never raises.
C33_ToolNeverRaises ==
  (via = "tool" /\ pc = "returned") =>
    /\ result.how = "return"
    /\ ~result.ok => (result.kind # "" \/ result.msg # "")

\* the claim as stated: no timeout of the Render poller without a status
\* request, whatever max_poll_time is
C34_Original ==
  (provider = "render" /\ TimedOut) => statusCalls >= 1

\* C34: the Render poller reports no timeout before its first status request
\* when max_poll_time is positive, or when the clock has not moved between
\* start = loop.time() and the first deadline test; with max_poll_time 0 and
\* a clock that has moved the first test already finds the deadline passed.
C34_PollBeforeTimeout ==
  (provider = "render" /\ TimedOut /\ (max_poll_time > 0 \/ ~tick)) => statusCalls >= 1

\* with max_poll_time 0 and two equal clock readings the poller timed out
\* after one status request
C34_Witness ==
  /\ provider = "render"
  /\ max_poll_time = 0
  /\ ~tick
  /\ TimedOut
  /\ statusCalls = 1

(***************************************************************************)
(* Credentials                                                             *)
(***************************************************************************)
\* the invocation is over for its caller, with an error
EndedInError ==
  IF via = "direct" THEN Failed
  ELSE pc = "returned" /\ (result.how = "raise" \/ ~result.ok)

\* C35: an invocation whose provider credential is not set issues no HTTP
\* request, and its first step ends it in an error.
C35_NoCredentialNoCall ==
  ~hasToken =>
    /\ submitCalls = 0
    /\ statusCalls = 0
    /\ pc \notin { "entry", "init" } => EndedInError

\* the HeyGen tool was called without HEYGEN_API_KEY and returned its error
C35_Witness ==
  /\ provider = "heygen"
  /\ ~hasToken
  /\ Failed
  /\ outcome.msg = "Error: HEYGEN_API_KEY environment variable is required"
  /\ submitCalls + statusCalls = 0


\* ---------------------------------------------------------------------------
\* C37

\* the HTTP requests one invocation has issued
HttpRequests == submitCalls + statusCalls

\* the invocations of HeyGenAvatarTool._run that must not call HeyGen: the
\* cost estimate, an unknown action, and an action whose required arguments
\* are missing
HeyGenNoCallCase ==
  \/ hgAction = "estimate_cost"
  \/ hgAction \notin HeyGenKnownActions
  \/ HeyGenArgsError(hgAction, args) # ""

\* C37: one invocation of HeyGenAvatarTool._run issues at most one HTTP
\* request; for estimate_cost, for an unknown action and for an action whose
\* required arguments are missing it issues none, and what it gives back is
\* returned (the estimate or an error string), never raised.
C37_HeyGenOneRequest ==
  provider = "heygen" =>
    /\ HttpRequests <= 1
    /\ HeyGenNoCallCase =>
         /\ HttpRequests = 0
         /\ Done => /\ outcome.how = "return"
                    /\ \/ outcome.kind = "estimate" /\ hgAction = "estimate_cost"
                       \/ ~outcome.ok /\ outcome.msg # ""

\* the estimate was returned by an invocation that issued no request
C37_Witness ==
  /\ provider = "heygen"
  /\ hgAction = "estimate_cost"
  /\ Done
  /\ outcome.kind = "estimate"
  /\ HttpRequests = 0


\* ---------------------------------------------------------------------------
\* C36

\* generate_storyboard has handed a status URL to _poll_until_complete
RenderPolling == provider = "render" /\ urlFrom # ""

\* C36: on a 202 a status_url supplied by the provider is the URL polled, also
\* when a job_id comes with it; the URL is inferred from the job_id only when
\* the body has no (or an empty) status_url; and the URL handed to the polling
\* loop is the one every poll of the job uses.
C36_StatusUrlAsGiven ==
  [][ /\ RenderPolling =>
           /\ submitResp.code = 202
           /\ submitResp.body.has_url => urlFrom = "given"
           /\ urlFrom = "inferred" => ~submitResp.body.has_url /\ submitResp.body.has_id
           /\ urlFrom' = urlFrom
      /\ RenderPolling' => (urlFrom' = "given" <=> submitResp'.body.has_url) ]_vars

\* a job whose 202 carried both a status_url and a job_id has been polled twice
C36_Witness ==
  /\ RenderPolling
  /\ submitResp.body.has_url
  /\ submitResp.body.has_id
  /\ urlFrom = "given"
  /\ statusCalls >= 2


\* ---------------------------------------------------------------------------
\* C38

\* POST /api/storyboards has ended after calling generate_storyboard
RestAnswered == via = "rest" /\ pc = "returned" /\ Done

\* C38: the REST endpoint turns every RenderMCPError of generate_storyboard
\* (an HTTP error status, a failure the provider reports, a 202 with no status
\* URL, the polling timeout) into an HTTP 502 that carries the error's message,
\* and it answers "success" with the payload only when generate_storyboard
\* returned normally.
C38_RestMapsRenderErrors ==
  /\ RestAnswered /\ outcome.kind = "RenderMCPError" =>
       /\ result.how = "raise"
       /\ result.kind = "HTTPException 502"
       /\ result.msg = outcome.msg
       /\ result.msg # ""
  /\ (via = "rest" /\ pc = "returned" /\ result.kind = "success") =>
       /\ outcome.how = "return"
       /\ result.how = "return"
       /\ result.msg = "data"

\* the endpoint has answered 502 for a job that timed out while being polled
C38_Witness ==
  /\ RestAnswered
  /\ outcome = RenderError("Timed out waiting for Render MCP job to complete")
  /\ statusCalls >= 1
  /\ result.kind = "HTTPException 502"
  /\ result.msg = outcome.msg
=============================================================================
